---------------------------- MODULE Spec2Model ----------------------------
(***************************************************************************)
(* blockchain-sim: the ledger and its proof-of-work (main.rs), the event   *)
(* bus and the session registry (events.rs), the streaming server and the  *)
(* query handlers (websocket.rs).                                          *)
(* http-server: the ThreadPool (thread_pool.rs).                           *)
(*                                                                         *)
(* Strings of hex characters are sequences of one-character strings; the   *)
(* empty String is <<>>.  Sha256 is a library function: it is modelled by  *)
(* a deterministic stand-in digest with the output format of the code's    *)
(* format!("{:x}", ...) (64 lowercase hex characters).                      *)
(***************************************************************************)
EXTENDS Integers, Sequences, FiniteSets, TLC

(***************************************************************************)
(* Bounds of the model.                                                    *)
(***************************************************************************)
\* rounds of main's loop that are explored (the code runs trader_names.len())
MaxRounds == 2
\* SystemTime::now() returns one of 1..MaxTime seconds
MaxTime == 1
\* connections the peer side opens
MaxSessions == 2
\* concurrent HTTP requests
MaxQueries == 2
\* events a publisher other than main sends in a burst (more than the channel holds)
MaxBurst == 130
\* events that publisher sends when two connections are served
MaxFanout == 3
\* the size given to ThreadPool::new
PoolSize == 3
\* jobs given to ThreadPool::execute
MaxJobs == 2

(***************************************************************************)
(* Program constants.                                                      *)
(***************************************************************************)
DIFFICULTY == 2
PauseIterations == 100
Capacity == 100
HashLen == 64

\* broadcast::channel(capacity) allocates capacity.next_power_of_two() slots ("the actual
\* capacity may be greater than the provided capacity")
NextPowerOfTwo(n) == CHOOSE p \in {2 ^ k : k \in 0..16} : p >= n /\ p < 2 * n
ChannelSlots == NextPowerOfTwo(Capacity)

trader_names ==
    <<"Shivraj", "jarvihs", "phantom", "metamask", "larry", "harry", "zain", "watson", "anna">>

\* the name read from stdin
miner_name == "miner"

NumRounds == IF MaxRounds < Len(trader_names) THEN MaxRounds ELSE Len(trader_names)

Timestamps == 1..MaxTime
Sessions == 1..MaxSessions
Queries == 1..MaxQueries
WorkerIds == 1..PoolSize

(***************************************************************************)
(* Hex strings and the digest.                                             *)
(***************************************************************************)
HexChars ==
    <<"0", "1", "2", "3", "4", "5", "6", "7", "8", "9", "a", "b", "c", "d", "e", "f">>

HexVal(c) == (CHOOSE k \in 1..16 : HexChars[k] = c) - 1

NameCode(n) ==
    IF n = miner_name THEN 0
    ELSE CHOOSE k \in 1..Len(trader_names) : trader_names[k] = n

\* impl Display for Transaction: "From: {} To: {} Amount: {} Fee: {}"
\* (the signature is not rendered)
DisplayTransaction(t) == <<NameCode(t.from), NameCode(t.to), t.amount, t.fee>>

\* impl Display for MultipleTransactions: "Transaction {i+1}: {transaction} " for each
RECURSIVE DisplayFrom(_, _)
DisplayFrom(table, k) ==
    IF k > Len(table) THEN <<>>
    ELSE <<k>> \o DisplayTransaction(table[k]) \o DisplayFrom(table, k + 1)

DisplayData(data) == DisplayFrom(data, 1)

\* the text that is hashed: format!("{} {} {} {} {}", index, prev_hash, timestamp, data, nonce),
\* as the sequence of the values it renders
HashInput(b) ==
    <<b.index>> \o [k \in 1..Len(b.prev_hash) |-> HexVal(b.prev_hash[k])]
        \o <<b.timestamp>> \o DisplayData(b.data) \o <<b.nonce>>

\* stand-in for Sha256.  Its first two hex characters (Lead) are "00" at exactly one nonce
\* for every rest of the input: within three misses for most inputs and after
\* PauseIterations misses or more for one in sixteen, so that a search of either length
\* is explored.
\* The other characters come from a second fold over the whole input (Rest).  A fold
\* combines the folds of the two halves of its range.
RECURSIVE Fold(_, _, _, _, _)
Fold(input, lo, hi, mul, mod) ==
    IF lo > hi THEN 1
    ELSE IF lo = hi THEN (input[lo] * mul + lo) % mod
    ELSE LET mid == (lo + hi) \div 2
         IN  (Fold(input, lo, mid, mul, mod) * mul + Fold(input, mid + 1, hi, mul, mod) + 1)
                 % mod

ZeroAt(h) == IF h % 16 = 11 THEN PauseIterations + (h % 2) ELSE h % 4

LeadSeed(input) == Fold(input, 1, Len(input) - 1, 31, 256)

Lead(input) ==
    LET h == LeadSeed(input)
        last == input[Len(input)]
    IN  IF last = ZeroAt(h) THEN 0 ELSE 1 + ((h + last) % 255)

Rest(input) == Fold(input, 1, Len(input), 17, 4093)

HexDigit(lead, rest, j) ==
    CASE j = 1 -> lead \div 16
      [] j = 2 -> lead % 16
      [] j = 3 -> (rest \div 256) % 16
      [] j = 4 -> (rest \div 16) % 16
      [] j = 5 -> rest % 16
      [] OTHER -> (rest * j + lead + j * j) % 16

\* hasher.update(data); format!("{:x}", hasher.finalize())
Sha256Hex(input) ==
    LET lead == Lead(input)
        rest == Rest(input)
    IN  [j \in 1..HashLen |-> HexChars[1 + HexDigit(lead, rest, j)]]

\* Block::calculate_hash
calculate_hash(b) == Sha256Hex(HashInput(b))

\* the success test of the mining loop:
\* !self.hash.is_empty() && &self.hash[..DIFFICULTY as usize] == "00"
MeetsDifficulty(hash) ==
    /\ hash # <<>>
    /\ SubSeq(hash, 1, DIFFICULTY) = <<"0", "0">>


(***************************************************************************)
(* State.                                                                  *)
(***************************************************************************)
VARIABLES
    chain,          \* BlockChain.chain
    opc,            \* where main is
    round,          \* main's loop variable i
    sender,         \* main's variable sender
    new_block,      \* the candidate block of the round
    iteration,      \* mine_block_with_visual_hash's counter
    txi,            \* position of main's loop over the round's transactions
    bcphase,        \* where EventBus::broadcast is: before receiver_count() or before send()
    wlock,          \* the ledger RwLock is held for writing
    readers,        \* the requests that hold the ledger RwLock for reading
    log,            \* the events the broadcast channel accepted, oldest first
    published,      \* every event given to EventBus::broadcast, in order (history)
    lastBroadcast,  \* how the last call of EventBus::broadcast ended (history)
    receivers,      \* the sessions whose event_task holds a live Receiver
    rxNext,         \* the number of channel events each Receiver is past
    subAt,          \* Len(published) when the Receiver was created (history)
    recvd,          \* the events recv() returned to each event_task (history)
    cur,            \* the event an event_task is writing to its socket
    hpc,            \* where each handle_connection is
    ctask,          \* each client_task
    etask,          \* each event_task
    last_text,      \* the last text frame each client_task read
    registry,       \* ConnectionManager.connections
    regLast,        \* the last ConnectionManager call made for each id (history)
    cmlock,         \* the RwLock of ConnectionManager.connections: who holds it
    qpc,            \* where each HTTP request is
    qreq,           \* its route and path parameter
    qres,           \* its reply
    qat,            \* the ledger length behind the read guard at the reply (history)
    sender_open,    \* ThreadPool.sender: the channel has a Sender
    channel,        \* the jobs sent and not yet received
    receiver_lock,  \* the worker that holds the Mutex of the Receiver (0: none)
    workers,        \* where each Worker's thread is, and the job it has
    executed,       \* the jobs that have run (history)
    submitted,      \* the number of execute() calls (history)
    dpc,            \* where Drop::drop is
    joined          \* the workers Drop::drop has joined

ledgerVars == <<chain, wlock, readers>>
orchVars == <<opc, round, sender, new_block, iteration, txi, bcphase>>
busVars == <<log, published, lastBroadcast, receivers, rxNext, subAt, recvd>>
sessionVars == <<cur, hpc, ctask, etask, last_text, registry, regLast, cmlock>>
poolVars == <<sender_open, channel, receiver_lock, workers, executed, submitted, dpc,
              joined>>
\* the HTTP side: the requests of the API and the http-server's ThreadPool
queryVars == <<qpc, qreq, qres, qat, poolVars>>
vars == <<ledgerVars, orchVars, busVars, sessionVars, queryVars>>

(***************************************************************************)
(* Transactions, blocks, events.                                           *)
(***************************************************************************)
\* create_transaction
create_transaction(from, to, amount, fee) ==
    [from |-> from, to |-> to, amount |-> amount, fee |-> fee, signature |-> "None"]

\* Block::new, given what SystemTime::now() returned
Block_new(index, prev_hash, data, now) ==
    [index |-> index, prev_hash |-> prev_hash, timestamp |-> now, data |-> data,
     nonce |-> 0, hash |-> <<>>]

\* the block BlockChain::new puts first
GenesisBlock(now) == Block_new(0, <<>>, <<>>, now)

\* no candidate
NoBlock == Block_new(0, <<>>, <<>>, 0)

\* main: the recipient of round i
Recipient(i) ==
    IF i < Len(trader_names) - 1 THEN trader_names[i + 2] ELSE miner_name

\* main: the three transactions of a round
RoundTransactions(from, to) ==
    << create_transaction(from, to, 1000, 10),
       create_transaction(to, from, 2000, 20),
       create_transaction(from, to, 3000, 30) >>

\* mutant of BlockMiningStarted: the BlockMined event is sent where mining starts
BlockMinedAtStart(b) ==
    [type |-> "BlockMined", block_index |-> b.index, hash |-> b.hash, miner |-> miner_name,
     timestamp |-> b.timestamp, transactions_count |-> Len(b.data)]

BlockMiningStarted(b) ==
    [type |-> "BlockMiningStarted", block_index |-> b.index, miner |-> miner_name,
     timestamp |-> b.timestamp]

\* mutant of BlockMined: the event carries the hash the block had before the search
BlockMinedStaleHash(b) ==
    [type |-> "BlockMined", block_index |-> b.index, hash |-> b.prev_hash,
     miner |-> miner_name, timestamp |-> b.timestamp, transactions_count |-> Len(b.data)]

BlockMined(b) ==
    [type |-> "BlockMined", block_index |-> b.index, hash |-> b.hash, miner |-> miner_name,
     timestamp |-> b.timestamp, transactions_count |-> Len(b.data)]

TransactionCreated(t, block_index) ==
    [type |-> "TransactionCreated", from |-> t.from, to |-> t.to, amount |-> t.amount,
     fee |-> t.fee, block_index |-> block_index]

RECURSIVE SumTransactions(_, _)
SumTransactions(c, k) ==
    IF k > Len(c) THEN 0 ELSE Len(c[k].data) + SumTransactions(c, k + 1)

\* mutant of BlockchainUpdated: only the transactions of the new block are counted
BlockchainUpdatedCountsLast(c) ==
    [type |-> "BlockchainUpdated", total_blocks |-> Len(c),
     total_transactions |-> Len(c[Len(c)].data)]

BlockchainUpdated(c) ==
    [type |-> "BlockchainUpdated", total_blocks |-> Len(c),
     total_transactions |-> SumTransactions(c, 1)]

(***************************************************************************)
(* The event bus.                                                          *)
(***************************************************************************)
\* broadcast::Sender::send: an error and nothing stored when no Receiver is alive
SenderSend(buffer, rx, event) ==
    IF rx = {} THEN buffer ELSE Append(buffer, event)

\* a call of EventBus::broadcast ends with this step
BroadcastReturns == bcphase = "send" \/ receivers = {}

\* mutant of broadcast: an event that finds no Receiver is kept in the channel
broadcastQueues(event) ==
    IF bcphase = "check" /\ receivers # {}
    THEN /\ bcphase' = "send"
         /\ UNCHANGED <<published, lastBroadcast, log>>
    ELSE /\ bcphase' = "check"
         /\ published' = Append(published, event)
         /\ log' = Append(log, event)
         /\ lastBroadcast' = IF receivers # {} THEN "sent"
                             ELSE IF bcphase = "check" THEN "no_clients" ELSE "send_err"

\* mutant of broadcast: the early return is taken with one Receiver too
broadcastSkipsSingle(event) ==
    IF bcphase = "check"
    THEN IF Cardinality(receivers) <= 1
         THEN /\ published' = Append(published, event)
              /\ lastBroadcast' = "no_clients"
              /\ UNCHANGED <<bcphase, log>>
         ELSE /\ bcphase' = "send"
              /\ UNCHANGED <<published, lastBroadcast, log>>
    ELSE /\ bcphase' = "check"
         /\ published' = Append(published, event)
         /\ log' = SenderSend(log, receivers, event)
         /\ lastBroadcast' = IF receivers = {} THEN "send_err" ELSE "sent"

\* mutant of broadcast: send() waits for room while a Receiver has Capacity events unread
broadcastWaits(event) ==
    IF bcphase = "check"
    THEN IF receivers = {}
         THEN /\ published' = Append(published, event)
              /\ lastBroadcast' = "no_clients"
              /\ UNCHANGED <<bcphase, log>>
         ELSE /\ bcphase' = "send"
              /\ UNCHANGED <<published, lastBroadcast, log>>
    ELSE /\ \A s \in receivers : Len(log) - rxNext[s] < Capacity
         /\ bcphase' = "check"
         /\ published' = Append(published, event)
         /\ log' = SenderSend(log, receivers, event)
         /\ lastBroadcast' = IF receivers = {} THEN "send_err" ELSE "sent"

\* EventBus::broadcast, one step of it: receiver_count() and the early return, or send()
broadcast(event) ==
    IF bcphase = "check"
    THEN IF receivers = {}
         THEN /\ published' = Append(published, event)
              /\ lastBroadcast' = "no_clients"
              /\ UNCHANGED <<bcphase, log>>
         ELSE /\ bcphase' = "send"
              /\ UNCHANGED <<published, lastBroadcast, log>>
    ELSE /\ bcphase' = "check"
         /\ published' = Append(published, event)
         /\ log' = SenderSend(log, receivers, event)
         /\ lastBroadcast' = IF receivers = {} THEN "send_err" ELSE "sent"

(***************************************************************************)
(* The ledger.                                                             *)
(***************************************************************************)
\* mine_block_with_visual_hash 126: self.hash = self.calculate_hash()
Rehash(b) == [b EXCEPT !.hash = calculate_hash(b)]

\* mutant of NextNonce: every other nonce is tried
NextNonceByTwo(b) == [b EXCEPT !.nonce = @ + 2]

\* mine_block_with_visual_hash 152: self.nonce += 1
NextNonce(b) == [b EXCEPT !.nonce = @ + 1]

\* mutant of LinkToTail: the hash of the first block instead of the last
LinkToFirst(c, b) == [b EXCEPT !.prev_hash = c[1].hash]

\* add_new_block: new_block.prev_hash = self.chain.last().unwrap().hash.clone()
LinkToTail(c, b) == [b EXCEPT !.prev_hash = c[Len(c)].hash]

\* mutant of Push: the new block replaces the last one
PushOverwrite(c, b) == [c EXCEPT ![Len(c)] = b]

\* mutant of Push: the new block is inserted at the front
PushFront(c, b) == <<b>> \o c

\* mutant of Push: the mined block is dropped
PushNothing(c, b) == c

\* add_new_block: self.chain.push(new_block)
Push(c, b) == Append(c, b)

(***************************************************************************)
(* Initial state: main has built the bus, the registry and the ledger      *)
(* (BlockChain::new succeeded), and started both servers.                  *)
(***************************************************************************)
NoEvent == [type |-> "none"]
NoRequest == [route |-> "none", index |-> 0]
NoReply == [status |-> "none"]

\* the registry's RwLock with no guard out (writer 0 is no writer)
NoHolder == [writer |-> 0, readers |-> {}]

Init ==
    /\ \E now \in Timestamps : chain = <<GenesisBlock(now)>>
    /\ opc = "round"
    /\ round = 0
    /\ sender = miner_name
    /\ new_block = NoBlock
    /\ iteration = 0
    /\ txi = 1
    /\ bcphase = "check"
    /\ wlock = FALSE
    /\ readers = {}
    /\ log = <<>>
    /\ published = <<>>
    /\ lastBroadcast = "none"
    /\ receivers = {}
    /\ rxNext = [s \in Sessions |-> 0]
    /\ subAt = [s \in Sessions |-> 0]
    /\ recvd = [s \in Sessions |-> <<>>]
    /\ cur = [s \in Sessions |-> NoEvent]
    /\ hpc = [s \in Sessions |-> "idle"]
    /\ ctask = [s \in Sessions |-> "none"]
    /\ etask = [s \in Sessions |-> "none"]
    /\ last_text = [s \in Sessions |-> ""]
    /\ registry = {}
    /\ regLast = [s \in Sessions |-> "none"]
    /\ cmlock = NoHolder
    /\ qpc = [q \in Queries |-> "idle"]
    /\ qreq = [q \in Queries |-> NoRequest]
    /\ qres = [q \in Queries |-> NoReply]
    /\ qat = [q \in Queries |-> 0]
    /\ sender_open = TRUE
    /\ channel = <<>>
    /\ receiver_lock = 0
    /\ workers = [w \in WorkerIds |-> [pc |-> "lock", job |-> 0]]
    /\ executed = {}
    /\ submitted = 0
    /\ dpc = "alive"
    /\ joined = 0

(***************************************************************************)
(* main: the rounds.                                                       *)
(***************************************************************************)
\* main 276-312: the round's transactions and Block::new succeeding
BuildBlock ==
    /\ opc = "round"
    /\ round < NumRounds
    /\ \E now \in Timestamps :
          new_block' = Block_new(round + 1, <<>>,
                                 RoundTransactions(sender, Recipient(round)), now)
    /\ txi' = 1
    /\ opc' = "tx"
    /\ UNCHANGED <<ledgerVars, round, sender, iteration, bcphase, busVars, sessionVars,
                   queryVars>>

\* mutant of BuildBlockTimeError: `return` for `continue`
BuildBlockTimeErrorReturns ==
    /\ opc = "round"
    /\ round < NumRounds
    /\ opc' = "idle"
    /\ UNCHANGED <<ledgerVars, round, sender, new_block, iteration, txi, bcphase, busVars,
                   sessionVars, queryVars>>

\* main 306-311: Block::new fails with TimeError, and `continue`
BuildBlockTimeError ==
    /\ opc = "round"
    /\ round < NumRounds
    /\ round' = round + 1
    /\ UNCHANGED <<ledgerVars, opc, sender, new_block, iteration, txi, bcphase, busVars,
                   sessionVars, queryVars>>

\* main 315-323: one TransactionCreated of the round
PublishTransaction ==
    /\ opc = "tx"
    /\ broadcast(TransactionCreated(new_block.data[txi], round + 1))
    /\ IF BroadcastReturns
       THEN IF txi < Len(new_block.data)
            THEN txi' = txi + 1 /\ opc' = opc
            ELSE txi' = 1 /\ opc' = "write"
       ELSE UNCHANGED <<txi, opc>>
    /\ UNCHANGED <<ledgerVars, round, sender, new_block, iteration, receivers, rxNext,
                   subAt, recvd, sessionVars, queryVars>>

\* main 327: blockchain.write() finds the lock read-held and queues; a queued writer
\* keeps later readers out (a step main takes only when requests hold the lock)
QueueWrite ==
    /\ opc = "write"
    /\ readers # {}
    /\ opc' = "write_wait"
    /\ UNCHANGED <<ledgerVars, round, sender, new_block, iteration, txi, bcphase, busVars,
                   sessionVars, queryVars>>

\* main 327: blockchain.write().await returns the guard
AcquireWrite ==
    /\ opc \in {"write", "write_wait"}
    /\ ~wlock
    /\ readers = {}
    /\ wlock' = TRUE
    /\ opc' = "link"
    /\ UNCHANGED <<chain, readers, round, sender, new_block, iteration, txi, bcphase,
                   busVars, sessionVars, queryVars>>

\* add_new_block 170-171
SetPrevHash ==
    /\ opc = "link"
    /\ new_block' = LinkToTail(chain, new_block)
    /\ iteration' = 0
    /\ opc' = "mine_start"
    /\ UNCHANGED <<ledgerVars, round, sender, txi, bcphase, busVars, sessionVars,
                   queryVars>>

\* mine_block_with_visual_hash 116-123
PublishMiningStarted ==
    /\ opc = "mine_start"
    /\ broadcast(BlockMiningStarted(new_block))
    /\ opc' = IF BroadcastReturns THEN "mine" ELSE opc
    /\ UNCHANGED <<ledgerVars, round, sender, new_block, iteration, txi, receivers,
                   rxNext, subAt, recvd, sessionVars, queryVars>>

\* mutant of MineStep: the loop is left after the first turn, whatever the hash
MineStepNoTest ==
    /\ opc = "mine"
    /\ iteration' = iteration + 1
    /\ new_block' = Rehash(new_block)
    /\ opc' = "mined"
    /\ UNCHANGED <<ledgerVars, round, sender, txi, bcphase, busVars, sessionVars,
                   queryVars>>

\* mutant of MineStep: the nonce is incremented after a success too
MineStepCountsOn ==
    /\ opc = "mine"
    /\ iteration' = iteration + 1
    /\ new_block' = NextNonce(Rehash(new_block))
    /\ opc' = IF MeetsDifficulty(Rehash(new_block).hash) THEN "mined" ELSE opc
    /\ UNCHANGED <<ledgerVars, round, sender, txi, bcphase, busVars, sessionVars,
                   queryVars>>

\* mine_block_with_visual_hash 125-128, 152: one turn of the loop
MineStep ==
    /\ opc = "mine"
    /\ iteration' = iteration + 1
    /\ IF MeetsDifficulty(Rehash(new_block).hash)
       THEN new_block' = Rehash(new_block) /\ opc' = "mined"
       ELSE new_block' = NextNonce(Rehash(new_block)) /\ opc' = opc
    /\ UNCHANGED <<ledgerVars, round, sender, txi, bcphase, busVars, sessionVars,
                   queryVars>>

\* mutant of PublishBlockMined: the write guard is dropped where BlockMined is published,
\* before the push
PublishBlockMinedUnlocks ==
    /\ opc = "mined"
    /\ broadcast(BlockMined(new_block))
    /\ opc' = IF BroadcastReturns
              THEN IF iteration > PauseIterations THEN "pause" ELSE "push"
              ELSE opc
    /\ wlock' = FALSE
    /\ UNCHANGED <<chain, readers, round, sender, new_block, iteration, txi, receivers,
                   rxNext, subAt, recvd, sessionVars, queryVars>>

\* mine_block_with_visual_hash 135-141
PublishBlockMined ==
    /\ opc = "mined"
    /\ broadcast(BlockMined(new_block))
    /\ opc' = IF BroadcastReturns
              THEN IF iteration > PauseIterations THEN "pause" ELSE "push"
              ELSE opc
    /\ UNCHANGED <<ledgerVars, round, sender, new_block, iteration, txi, receivers,
                   rxNext, subAt, recvd, sessionVars, queryVars>>

\* mutant of Pause: no `break` after the sleep, so the loop takes another turn
PauseWithoutBreak ==
    /\ opc = "pause"
    /\ opc' = "mine"
    /\ UNCHANGED <<ledgerVars, round, sender, new_block, iteration, txi, bcphase,
                   busVars, sessionVars, queryVars>>

\* mine_block_with_visual_hash 143-148: thread::sleep, then break
Pause ==
    /\ opc = "pause"
    /\ opc' = "push"
    /\ UNCHANGED <<ledgerVars, round, sender, new_block, iteration, txi, bcphase,
                   busVars, sessionVars, queryVars>>

\* add_new_block 177
PushBlock ==
    /\ opc = "push"
    /\ chain' = Push(chain, new_block)
    /\ new_block' = NoBlock
    /\ iteration' = 0
    /\ opc' = "updated"
    /\ UNCHANGED <<wlock, readers, round, sender, txi, bcphase, busVars, sessionVars,
                   queryVars>>

\* add_new_block 180-187
PublishBlockchainUpdated ==
    /\ opc = "updated"
    /\ broadcast(BlockchainUpdated(chain))
    /\ opc' = IF BroadcastReturns THEN "unlock" ELSE opc
    /\ UNCHANGED <<ledgerVars, round, sender, new_block, iteration, txi, receivers,
                   rxNext, subAt, recvd, sessionVars, queryVars>>

\* main 329-344: the write guard is dropped, sender = recipient, the next round
ReleaseWrite ==
    /\ opc = "unlock"
    /\ wlock' = FALSE
    /\ sender' = Recipient(round)
    /\ round' = round + 1
    /\ opc' = "round"
    /\ UNCHANGED <<chain, readers, new_block, iteration, txi, bcphase, busVars,
                   sessionVars, queryVars>>

\* main 347-394: after the last round (the total is read, the ledger is saved, main idles)
Finish ==
    /\ opc = "round"
    /\ round >= NumRounds
    /\ ~wlock
    /\ opc' = "idle"
    /\ UNCHANGED <<ledgerVars, round, sender, new_block, iteration, txi, bcphase,
                   busVars, sessionVars, queryVars>>

Orchestrator ==
    \/ BuildBlock
    \/ BuildBlockTimeError
    \/ PublishTransaction
    \/ AcquireWrite
    \/ SetPrevHash
    \/ PublishMiningStarted
    \/ MineStep
    \/ PublishBlockMined
    \/ Pause
    \/ PushBlock
    \/ PublishBlockchainUpdated
    \/ ReleaseWrite
    \/ Finish

(***************************************************************************)
(* The streaming server: one handle_connection per accepted connection.    *)
(* The connection id (Uuid::new_v4) of session s is s.                     *)
(***************************************************************************)
\* ConnectionManager::add_connection: connections.insert(id, ())
add_connection(connections, id) == connections \cup {id}

\* mutant of remove_connection: a connection is taken off whether or not id is present
remove_connection_any(connections, id) ==
    IF id \in connections \/ connections = {}
    THEN connections \ {id}
    ELSE connections \ {CHOOSE other \in connections : TRUE}

\* ConnectionManager::remove_connection: connections.remove(&id)
remove_connection(connections, id) == connections \ {id}

\* ConnectionManager::connection_count: connections.len()
connection_count(connections) == Cardinality(connections)

\* Receiver::recv when an event is waiting: the oldest event the Receiver has not had,
\* or Lagged when the channel no longer holds it (its slot was written again)
RecvLagged(s) == Len(log) - rxNext[s] > ChannelSlots
RecvReady(s) == rxNext[s] < Len(log)

\* mutant of RecvEvent: the newest event of the channel instead of the oldest unread one
RecvEventNewest(buffer, next) == buffer[Len(buffer)]

RecvEvent(buffer, next) == buffer[next + 1]

\* the text frames a client sends
Texts == {"ping", "hello"}

\* mutant of Accept: the accept loop has ended with the first failed handshake
AcceptUntilFailure(s) ==
    /\ hpc[s] = "idle"
    /\ \A t \in Sessions : ~(hpc[t] = "closed" /\ ctask[t] = "none")
    /\ hpc' = [hpc EXCEPT ![s] = "handshake"]
    /\ UNCHANGED <<ledgerVars, orchVars, busVars, cur, ctask, etask, last_text, registry,
                   regLast, cmlock, queryVars>>

\* WebSocketServer::start 36-47: a connection is accepted and its task spawned
Accept(s) ==
    /\ hpc[s] = "idle"
    /\ hpc' = [hpc EXCEPT ![s] = "handshake"]
    /\ UNCHANGED <<ledgerVars, orchVars, busVars, cur, ctask, etask, last_text, registry, regLast, cmlock,
                   queryVars>>

\* mutant of HandshakeFails: the error is passed over and the connection is registered
HandshakeFailsRegisters(s) ==
    /\ hpc[s] = "handshake"
    /\ registry' = add_connection(registry, s)
    /\ regLast' = [regLast EXCEPT ![s] = "add"]
    /\ UNCHANGED cmlock
    /\ hpc' = [hpc EXCEPT ![s] = "closed"]
    /\ UNCHANGED <<ledgerVars, orchVars, busVars, cur, ctask, etask, last_text, queryVars>>

\* handle_connection 57-63: accept_async fails
HandshakeFails(s) ==
    /\ hpc[s] = "handshake"
    /\ hpc' = [hpc EXCEPT ![s] = "closed"]
    /\ UNCHANGED <<ledgerVars, orchVars, busVars, cur, ctask, etask, last_text, registry, regLast, cmlock,
                   queryVars>>

\* handle_connection 57-126: the handshake succeeds, the connection is registered, both
\* tasks are spawned, and handle_connection waits in select!
Register(s) ==
    /\ hpc[s] = "handshake"
    /\ registry' = add_connection(registry, s)
    /\ regLast' = [regLast EXCEPT ![s] = "add"]
    /\ UNCHANGED cmlock
    /\ ctask' = [ctask EXCEPT ![s] = "running"]
    /\ etask' = [etask EXCEPT ![s] = "start"]
    /\ hpc' = [hpc EXCEPT ![s] = "select"]
    /\ UNCHANGED <<ledgerVars, orchVars, busVars, cur, last_text, queryVars>>

\* mutant of ClientText: "ping" is a command that takes the connection off the registry
ClientTextCommands(s) ==
    /\ ctask[s] = "running"
    /\ \E text \in Texts :
          /\ last_text' = [last_text EXCEPT ![s] = text]
          /\ registry' = IF text = "ping" THEN remove_connection(registry, s) ELSE registry
    /\ UNCHANGED <<ledgerVars, orchVars, busVars, cur, hpc, ctask, etask, regLast, cmlock, queryVars>>

\* client_task 81-92: a text frame is read (and "ping" is answered on the console)
ClientText(s) ==
    /\ ctask[s] = "running"
    /\ \E text \in Texts : last_text' = [last_text EXCEPT ![s] = text]
    /\ UNCHANGED <<ledgerVars, orchVars, busVars, cur, hpc, ctask, etask, registry, regLast, cmlock,
                   queryVars>>

\* client_task 81, 94-97: the stream ends, or a read fails
ClientEnds(s) ==
    /\ ctask[s] = "running"
    /\ ctask' = [ctask EXCEPT ![s] = "ended"]
    /\ UNCHANGED <<ledgerVars, orchVars, busVars, cur, hpc, etask, last_text, registry, regLast, cmlock,
                   queryVars>>

\* mutant of Subscribe: the new Receiver starts at the oldest event of the channel
SubscribeFromOldest(s) ==
    /\ etask[s] = "start"
    /\ receivers' = receivers \cup {s}
    /\ rxNext' = [rxNext EXCEPT ![s] = 0]
    /\ subAt' = [subAt EXCEPT ![s] = Len(published)]
    /\ etask' = [etask EXCEPT ![s] = "recv"]
    /\ UNCHANGED <<ledgerVars, orchVars, log, published, lastBroadcast, recvd, cur, hpc,
                   ctask, last_text, registry, regLast, cmlock, queryVars>>

\* event_task 105 and EventBus::subscribe
Subscribe(s) ==
    /\ etask[s] = "start"
    /\ receivers' = receivers \cup {s}
    /\ rxNext' = [rxNext EXCEPT ![s] = Len(log)]
    /\ subAt' = [subAt EXCEPT ![s] = Len(published)]
    /\ etask' = [etask EXCEPT ![s] = "recv"]
    /\ UNCHANGED <<ledgerVars, orchVars, log, published, lastBroadcast, recvd, cur, hpc,
                   ctask, last_text, registry, regLast, cmlock, queryVars>>

\* event_task 107-115: recv() returns; on Err(Lagged) the `while let Ok` loop ends and
\* the Receiver is dropped
Receive(s) ==
    /\ etask[s] = "recv"
    /\ RecvReady(s)
    /\ IF RecvLagged(s)
       THEN /\ etask' = [etask EXCEPT ![s] = "ended"]
            /\ receivers' = receivers \ {s}
            /\ UNCHANGED <<rxNext, recvd, cur>>
       ELSE /\ cur' = [cur EXCEPT ![s] = RecvEvent(log, rxNext[s])]
            /\ recvd' = [recvd EXCEPT ![s] = Append(@, RecvEvent(log, rxNext[s]))]
            /\ rxNext' = [rxNext EXCEPT ![s] = @ + 1]
            /\ etask' = [etask EXCEPT ![s] = "send"]
            /\ UNCHANGED receivers
    /\ UNCHANGED <<ledgerVars, orchVars, log, published, lastBroadcast, subAt, hpc, ctask,
                   last_text, registry, regLast, cmlock, queryVars>>

\* event_task 118-120: the frame is written
SendFrame(s) ==
    /\ etask[s] = "send"
    /\ cur' = [cur EXCEPT ![s] = NoEvent]
    /\ etask' = [etask EXCEPT ![s] = "recv"]
    /\ UNCHANGED <<ledgerVars, orchVars, busVars, hpc, ctask, last_text, registry, regLast, cmlock,
                   queryVars>>

\* event_task 118-124: the write fails, `break`, and the Receiver is dropped
SendFrameFails(s) ==
    /\ etask[s] = "send"
    /\ cur' = [cur EXCEPT ![s] = NoEvent]
    /\ etask' = [etask EXCEPT ![s] = "ended"]
    /\ receivers' = receivers \ {s}
    /\ UNCHANGED <<ledgerVars, orchVars, log, published, lastBroadcast, rxNext, subAt,
                   recvd, hpc, ctask, last_text, registry, regLast, cmlock, queryVars>>

\* mutant of Deregister: both tasks are awaited (join! for select!)
DeregisterAfterBoth(s) ==
    /\ hpc[s] = "select"
    /\ ctask[s] = "ended" /\ etask[s] = "ended"
    /\ registry' = remove_connection(registry, s)
    /\ regLast' = [regLast EXCEPT ![s] = "remove"]
    /\ UNCHANGED cmlock
    /\ hpc' = [hpc EXCEPT ![s] = "closed"]
    /\ UNCHANGED <<ledgerVars, orchVars, busVars, cur, ctask, etask, last_text, queryVars>>

\* handle_connection 129-135: select! sees one JoinHandle complete, then remove_connection.
\* The other JoinHandle is dropped, which leaves its task running.
Deregister(s) ==
    /\ hpc[s] = "select"
    /\ ctask[s] = "ended" \/ etask[s] = "ended"
    /\ registry' = remove_connection(registry, s)
    /\ regLast' = [regLast EXCEPT ![s] = "remove"]
    /\ UNCHANGED cmlock
    /\ hpc' = [hpc EXCEPT ![s] = "closed"]
    /\ UNCHANGED <<ledgerVars, orchVars, busVars, cur, ctask, etask, last_text, queryVars>>

\* one connection: the accept loop's turn for it and its handle_connection
Serve(s) ==
    \/ Accept(s)
    \/ HandshakeFails(s)
    \/ Register(s)
    \/ ClientEnds(s)
    \/ Subscribe(s)
    \/ Receive(s)
    \/ SendFrame(s)
    \/ SendFrameFails(s)
    \/ Deregister(s)

Streaming == \E s \in Sessions : Serve(s)

(***************************************************************************)
(* The query handlers.                                                     *)
(***************************************************************************)
Routes == {"blocks", "block", "status", "transactions", "block_transactions"}

\* the routes with a u32 path parameter
IndexedRoutes == {"block", "block_transactions"}

QueryIndices == 0..(MaxRounds + 1)

\* mutant of ChainGet: positions counted from one
ChainGetFromOne(c, index) ==
    IF index >= 1 /\ index <= Len(c) THEN <<c[index]>> ELSE <<>>

\* blockchain.chain.get(index as usize)
ChainGet(c, index) == IF index < Len(c) THEN <<c[index + 1]>> ELSE <<>>

\* get_all_transactions 255-262: one entry
TransactionEntry(t, block_index, b) ==
    [block_index |-> block_index, from |-> t.from, to |-> t.to, amount |-> t.amount,
     fee |-> t.fee, block_hash |-> b.hash]

\* get_block_transactions 281-289: one entry
BlockTransactionEntry(t, block_index, b) ==
    [block_index |-> block_index, from |-> t.from, to |-> t.to, amount |-> t.amount,
     fee |-> t.fee, block_hash |-> b.hash, signature |-> t.signature]

\* get_all_transactions 253-264: blocks by enumerate(), transactions in table order
RECURSIVE AllTransactions(_, _)
AllTransactions(c, k) ==
    IF k > Len(c) THEN <<>>
    ELSE [n \in 1..Len(c[k].data) |-> TransactionEntry(c[k].data[n], k - 1, c[k])]
             \o AllTransactions(c, k + 1)

\* the reply of each handler, from the chain behind the read guard
BlocksReply(c) == [status |-> "ok", body |-> c]

BlockReply(c, index) ==
    IF ChainGet(c, index) # <<>>
    THEN [status |-> "ok", body |-> ChainGet(c, index)[1]]
    ELSE [status |-> "not_found"]

\* mutant of StatusReply: the hash of the first block (chain.first() for chain.last())
StatusReplyFirstHash(c, connections, now) ==
    [status |-> "ok",
     body |-> [total_blocks |-> Len(c),
               connected_clients |-> connection_count(connections),
               last_block_hash |-> c[1].hash,
               timestamp |-> now]]

StatusReply(c, connections, now) ==
    [status |-> "ok",
     body |-> [total_blocks |-> Len(c),
               connected_clients |-> connection_count(connections),
               last_block_hash |-> c[Len(c)].hash,
               timestamp |-> now]]

TransactionsReply(c) == [status |-> "ok", body |-> AllTransactions(c, 1)]

BlockTransactionsReply(c, index) ==
    IF ChainGet(c, index) # <<>>
    THEN LET b == ChainGet(c, index)[1]
         IN  [status |-> "ok",
              body |-> [n \in 1..Len(b.data) |-> BlockTransactionEntry(b.data[n], index, b)]]
    ELSE [status |-> "not_found"]

\* a request reaches its handler, which calls blockchain.read()
Request(q) ==
    /\ qpc[q] = "idle"
    /\ \E route \in Routes :
          \E index \in (IF route \in IndexedRoutes THEN QueryIndices ELSE {0}) :
              qreq' = [qreq EXCEPT ![q] = [route |-> route, index |-> index]]
    /\ qres' = [qres EXCEPT ![q] = NoReply]
    /\ qat' = [qat EXCEPT ![q] = 0]
    /\ UNCHANGED poolVars
    /\ qpc' = [qpc EXCEPT ![q] = "wait"]
    /\ UNCHANGED <<ledgerVars, orchVars, busVars, sessionVars>>

\* mutant of AcquireRead: the read guard is given while main holds the write guard
AcquireReadUnguarded(q) ==
    /\ qpc[q] = "wait"
    /\ readers' = readers \cup {q}
    /\ qpc' = [qpc EXCEPT ![q] = "read"]
    /\ UNCHANGED <<chain, wlock, orchVars, busVars, sessionVars, qreq, qres, qat, poolVars>>

\* a request for a block past the end of the ledger reaches its handler
RequestPastEnd(q) ==
    /\ qpc[q] = "idle"
    /\ \E route \in IndexedRoutes :
          qreq' = [qreq EXCEPT ![q] = [route |-> route, index |-> MaxRounds + 1]]
    /\ qres' = [qres EXCEPT ![q] = NoReply]
    /\ qat' = [qat EXCEPT ![q] = 0]
    /\ UNCHANGED poolVars
    /\ qpc' = [qpc EXCEPT ![q] = "wait"]
    /\ UNCHANGED <<ledgerVars, orchVars, busVars, sessionVars>>

\* mutant of AcquireRead: the guard is exclusive (a Mutex for the RwLock)
AcquireReadExclusive(q) ==
    /\ qpc[q] = "wait"
    /\ ~wlock
    /\ opc # "write_wait"
    /\ readers = {}
    /\ readers' = readers \cup {q}
    /\ qpc' = [qpc EXCEPT ![q] = "read"]
    /\ UNCHANGED <<chain, wlock, orchVars, busVars, sessionVars, qreq, qres, qat, poolVars>>

\* blockchain.read().await returns the guard
AcquireRead(q) ==
    /\ qpc[q] = "wait"
    /\ ~wlock
    /\ opc # "write_wait"
    /\ readers' = readers \cup {q}
    /\ qpc' = [qpc EXCEPT ![q] = "read"]
    /\ UNCHANGED <<chain, wlock, orchVars, busVars, sessionVars, qreq, qres, qat, poolVars>>

\* mutant of Reply: the read guard is kept after the handler returned
ReplyKeepsGuard(q, reply) ==
    /\ qres' = [qres EXCEPT ![q] = reply]
    /\ qat' = [qat EXCEPT ![q] = Len(chain)]
    /\ UNCHANGED poolVars
    /\ qpc' = [qpc EXCEPT ![q] = "idle"]
    /\ UNCHANGED <<chain, wlock, readers, orchVars, busVars, sessionVars, qreq>>

\* the end of a handler: the reply, and the read guard dropped
Reply(q, reply) ==
    /\ qres' = [qres EXCEPT ![q] = reply]
    /\ qat' = [qat EXCEPT ![q] = Len(chain)]
    /\ UNCHANGED poolVars
    /\ readers' = readers \ {q}
    /\ qpc' = [qpc EXCEPT ![q] = "idle"]
    /\ UNCHANGED <<chain, wlock, orchVars, busVars, sessionVars, qreq>>

\* get_all_blocks 206-211
get_all_blocks(q) ==
    /\ qpc[q] = "read"
    /\ qreq[q].route = "blocks"
    /\ Reply(q, BlocksReply(chain))

\* get_block_by_index 213-224
get_block_by_index(q) ==
    /\ qpc[q] = "read"
    /\ qreq[q].route = "block"
    /\ Reply(q, BlockReply(chain, qreq[q].index))

\* get_blockchain_status 226-244
get_blockchain_status(q) ==
    /\ qpc[q] = "read"
    /\ qreq[q].route = "status"
    /\ \E now \in Timestamps : Reply(q, StatusReply(chain, registry, now))

\* get_blockchain_status 237-240: duration_since fails and unwrap() panics; the unwinding
\* drops the read guard
get_blockchain_status_panics(q) ==
    /\ qpc[q] = "read"
    /\ qreq[q].route = "status"
    /\ Reply(q, [status |-> "panic"])

\* mutant of get_all_transactions: the entries come in either order (as from a map)
get_all_transactions_any_order(q) ==
    /\ qpc[q] = "read"
    /\ qreq[q].route = "transactions"
    /\ \E backwards \in BOOLEAN :
          LET all == AllTransactions(chain, 1)
          IN  Reply(q, [status |-> "ok",
                        body |-> IF backwards
                                 THEN [n \in 1..Len(all) |-> all[Len(all) + 1 - n]]
                                 ELSE all])

\* get_all_transactions 246-267
get_all_transactions(q) ==
    /\ qpc[q] = "read"
    /\ qreq[q].route = "transactions"
    /\ Reply(q, TransactionsReply(chain))

\* get_block_transactions 269-297
get_block_transactions(q) ==
    /\ qpc[q] = "read"
    /\ qreq[q].route = "block_transactions"
    /\ Reply(q, BlockTransactionsReply(chain, qreq[q].index))

\* one request: it arrives, takes the read guard and is answered by its handler
Answer(q) ==
    \/ Request(q)
    \/ AcquireRead(q)
    \/ get_all_blocks(q)
    \/ get_block_by_index(q)
    \/ get_blockchain_status(q)
    \/ get_blockchain_status_panics(q)
    \/ get_all_transactions(q)
    \/ get_block_transactions(q)

QueryService == \E q \in Queries : Answer(q)

(***************************************************************************)
(* http-server: the ThreadPool. Worker w is the thread of workers[w - 1].   *)
(***************************************************************************)
\* ThreadPool::execute: self.sender.send(job).unwrap()
execute ==
    /\ dpc = "alive"
    /\ submitted < MaxJobs
    /\ submitted' = submitted + 1
    /\ channel' = Append(channel, submitted + 1)
    /\ UNCHANGED <<ledgerVars, orchVars, busVars, sessionVars, qpc, qreq, qres, qat,
                   sender_open, receiver_lock, workers, executed, dpc, joined>>

\* Worker::new 123: receiver.lock().unwrap() returns the guard
WorkerLock(w) ==
    /\ workers[w].pc = "lock"
    /\ receiver_lock = 0
    /\ receiver_lock' = w
    /\ workers' = [workers EXCEPT ![w].pc = "recv"]
    /\ UNCHANGED <<ledgerVars, orchVars, busVars, sessionVars, qpc, qreq, qres, qat,
                   sender_open, channel, executed, submitted, dpc, joined>>

\* Worker::new 123-136: recv() returns, a job while one is buffered and Err once the
\* channel is empty and has no Sender; the guard is dropped at the end of the statement
WorkerRecv(w) ==
    /\ workers[w].pc = "recv"
    /\ channel # <<>> \/ ~sender_open
    /\ IF channel # <<>>
       THEN /\ workers' = [workers EXCEPT ![w] = [pc |-> "job", job |-> Head(channel)]]
            /\ channel' = Tail(channel)
       ELSE /\ workers' = [workers EXCEPT ![w].pc = "exited"]
            /\ UNCHANGED channel
    /\ receiver_lock' = 0
    /\ UNCHANGED <<ledgerVars, orchVars, busVars, sessionVars, qpc, qreq, qres, qat,
                   sender_open, executed, submitted, dpc, joined>>

\* Worker::new 126-130: job()
WorkerJob(w) ==
    /\ workers[w].pc = "job"
    /\ executed' = executed \cup {workers[w].job}
    /\ workers' = [workers EXCEPT ![w] = [pc |-> "lock", job |-> 0]]
    /\ UNCHANGED <<ledgerVars, orchVars, busVars, sessionVars, qpc, qreq, qres, qat,
                   sender_open, channel, receiver_lock, submitted, dpc, joined>>

\* Drop for ThreadPool 75-99. drop(&self.sender) at 81 drops a reference to the Sender:
\* the Sender itself lives until the fields are dropped, after drop() has returned. Then
\* one join() per worker, which returns when that worker's thread has ended.
ThreadPoolDrop ==
    /\ dpc # "done"
    /\ IF dpc = "alive"
       THEN /\ dpc' = "join"
            /\ UNCHANGED <<sender_open, joined>>
       ELSE IF joined < PoolSize
            THEN /\ workers[joined + 1].pc = "exited"
                 /\ joined' = joined + 1
                 /\ UNCHANGED <<sender_open, dpc>>
            ELSE /\ dpc' = "done"
                 /\ sender_open' = FALSE
                 /\ UNCHANGED joined
    /\ UNCHANGED <<ledgerVars, orchVars, busVars, sessionVars, qpc, qreq, qres, qat,
                   channel, receiver_lock, workers, executed, submitted>>

Worker(w) == WorkerLock(w) \/ WorkerRecv(w) \/ WorkerJob(w)

ThreadPool == execute \/ (\E w \in WorkerIds : Worker(w)) \/ ThreadPoolDrop

(***************************************************************************)
(* Specifications.                                                         *)
(***************************************************************************)
\* the frames the clients send
Inbound == \E s \in Sessions : ClientText(s)

Next == Orchestrator \/ QueueWrite \/ Streaming \/ Inbound \/ QueryService

\* the whole program
Spec == Init /\ [][Next]_vars

\* main and the streaming server with one connection
SpecStream == Init /\ [][Orchestrator \/ Serve(1)]_vars

\* main alone
SpecLedger == Init /\ [][Orchestrator]_vars

\* main and the query service with one request at a time
SpecQuery == Init /\ [][Orchestrator \/ QueueWrite \/ Answer(1)]_vars

\* main's steps other than a turn of the mining loop, whose only guard is main's position
StepOutsideMining ==
    \/ BuildBlock
    \/ BuildBlockTimeError
    \/ PublishTransaction
    \/ QueueWrite
    \/ AcquireWrite
    \/ SetPrevHash
    \/ PublishMiningStarted
    \/ PublishBlockMined
    \/ Pause
    \/ PushBlock
    \/ PublishBlockchainUpdated
    \/ ReleaseWrite
    \/ Finish

\* the handler of request q returns
Handler(q) ==
    \/ get_all_blocks(q)
    \/ get_block_by_index(q)
    \/ get_blockchain_status(q)
    \/ get_blockchain_status_panics(q)
    \/ get_all_transactions(q)
    \/ get_block_transactions(q)

\* a nonce search is not left for ever between two turns; ENABLED <<MineStep>>_vars is
\* opc = "mine", because a turn always counts iteration up
MiningFairness == []<>(opc # "mine") \/ []<><<MineStep>>_vars

\* main and the query service, where main's task and every handler that holds its read
\* guard keep being scheduled, and the RwLock serves a queued writer once the readers
\* that hold it have returned
SpecQueryFair ==
    /\ SpecQuery
    /\ WF_vars(StepOutsideMining)
    /\ MiningFairness
    /\ WF_vars(Handler(1))

\* main and the query service with concurrent requests
SpecQueryPair == Init /\ [][Orchestrator \/ QueueWrite \/ QueryService]_vars

\* a request that is answered not-found
AnswerPastEnd(q) ==
    \/ RequestPastEnd(q)
    \/ AcquireRead(q)
    \/ get_block_by_index(q)
    \/ get_block_transactions(q)

\* main, one connection, and requests for blocks that are not there
SpecFaults == Init /\ [][Orchestrator \/ QueueWrite \/ Serve(1) \/ AnswerPastEnd(1)]_vars

\* main and one connection whose client sends text frames
SpecInbound == Init /\ [][Orchestrator \/ Serve(1) \/ ClientText(1)]_vars

\* a caller of ConnectionManager::add_connection with any id, present or not
AttachCall(id) ==
    /\ registry' = add_connection(registry, id)
    /\ regLast' = [regLast EXCEPT ![id] = "add"]
    /\ UNCHANGED cmlock
    /\ UNCHANGED <<ledgerVars, orchVars, busVars, cur, hpc, ctask, etask, last_text,
                   queryVars>>

\* a caller of ConnectionManager::remove_connection with any id, present or not
DetachCall(id) ==
    /\ registry' = remove_connection(registry, id)
    /\ regLast' = [regLast EXCEPT ![id] = "remove"]
    /\ UNCHANGED cmlock
    /\ UNCHANGED <<ledgerVars, orchVars, busVars, cur, hpc, ctask, etask, last_text,
                   queryVars>>

\* the ConnectionManager under arbitrary calls, and connection_count() as the status
\* handler calls it
SpecRegistry ==
    Init /\ [][(\E id \in Sessions : AttachCall(id) \/ DetachCall(id)) \/ Answer(1)]_vars

(***************************************************************************)
(* The same handlers with each .await on the registry's RwLock as a step of *)
(* its own: add_connection, remove_connection and connection_count wait for *)
(* the guard, then hold it for one map operation.                           *)
(***************************************************************************)
\* handle_connection 57-69: the handshake succeeded and add_connection is called
HandshakeDone(s) ==
    /\ hpc[s] = "handshake"
    /\ hpc' = [hpc EXCEPT ![s] = "add"]
    /\ UNCHANGED <<ledgerVars, orchVars, busVars, cur, ctask, etask, last_text, registry,
                   regLast, cmlock, queryVars>>

\* add_connection 69: self.connections.write().await returns the guard
AddConnectionLock(s) ==
    /\ hpc[s] = "add"
    /\ cmlock = NoHolder
    /\ cmlock' = [cmlock EXCEPT !.writer = s]
    /\ hpc' = [hpc EXCEPT ![s] = "adding"]
    /\ UNCHANGED <<ledgerVars, orchVars, busVars, cur, ctask, etask, last_text, registry,
                   regLast, queryVars>>

\* add_connection 70-72: insert and the guard dropped; handle_connection 72-126: split,
\* both tasks spawned
AddConnectionInsert(s) ==
    /\ hpc[s] = "adding"
    /\ registry' = add_connection(registry, s)
    /\ regLast' = [regLast EXCEPT ![s] = "add"]
    /\ cmlock' = [cmlock EXCEPT !.writer = 0]
    /\ ctask' = [ctask EXCEPT ![s] = "running"]
    /\ etask' = [etask EXCEPT ![s] = "start"]
    /\ hpc' = [hpc EXCEPT ![s] = "select"]
    /\ UNCHANGED <<ledgerVars, orchVars, busVars, cur, last_text, queryVars>>

\* handle_connection 129-135: select! returns and remove_connection is called
SelectReturns(s) ==
    /\ hpc[s] = "select"
    /\ ctask[s] = "ended" \/ etask[s] = "ended"
    /\ hpc' = [hpc EXCEPT ![s] = "remove"]
    /\ UNCHANGED <<ledgerVars, orchVars, busVars, cur, ctask, etask, last_text, registry,
                   regLast, cmlock, queryVars>>

\* remove_connection 75: self.connections.write().await returns the guard
RemoveConnectionLock(s) ==
    /\ hpc[s] = "remove"
    /\ cmlock = NoHolder
    /\ cmlock' = [cmlock EXCEPT !.writer = s]
    /\ hpc' = [hpc EXCEPT ![s] = "removing"]
    /\ UNCHANGED <<ledgerVars, orchVars, busVars, cur, ctask, etask, last_text, registry,
                   regLast, queryVars>>

\* remove_connection 76-78: remove and the guard dropped
RemoveConnectionRemove(s) ==
    /\ hpc[s] = "removing"
    /\ registry' = remove_connection(registry, s)
    /\ regLast' = [regLast EXCEPT ![s] = "remove"]
    /\ cmlock' = [cmlock EXCEPT !.writer = 0]
    /\ hpc' = [hpc EXCEPT ![s] = "closed"]
    /\ UNCHANGED <<ledgerVars, orchVars, busVars, cur, ctask, etask, last_text, queryVars>>

\* a request for /api/status reaches its handler
RequestStatus(q) ==
    /\ qpc[q] = "idle"
    /\ qreq' = [qreq EXCEPT ![q] = [route |-> "status", index |-> 0]]
    /\ qres' = [qres EXCEPT ![q] = NoReply]
    /\ qat' = [qat EXCEPT ![q] = 0]
    /\ UNCHANGED poolVars
    /\ qpc' = [qpc EXCEPT ![q] = "wait"]
    /\ UNCHANGED <<ledgerVars, orchVars, busVars, sessionVars>>

\* connection_count 82, called at get_blockchain_status 231 with the ledger's read guard
\* held: self.connections.read().await returns the guard
StatusCountLock(q) ==
    /\ qpc[q] = "read"
    /\ qreq[q].route = "status"
    /\ cmlock.writer = 0
    /\ cmlock' = [cmlock EXCEPT !.readers = @ \cup {q}]
    /\ qpc' = [qpc EXCEPT ![q] = "count"]
    /\ UNCHANGED <<ledgerVars, orchVars, busVars, cur, hpc, ctask, etask, last_text,
                   registry, regLast, qreq, qres, qat, poolVars>>

\* mutant of StatusCountRead: the registry's read guard is kept by the handler
StatusCountReadKeepsGuard(q) ==
    /\ qpc[q] = "count"
    /\ qres' = [qres EXCEPT ![q] = [status |-> "counted",
                                    connected_clients |-> connection_count(registry)]]
    /\ qpc' = [qpc EXCEPT ![q] = "status"]
    /\ UNCHANGED <<ledgerVars, orchVars, busVars, sessionVars, qreq, qat, poolVars>>

\* connection_count 83-84: connections.len() and the guard dropped
StatusCountRead(q) ==
    /\ qpc[q] = "count"
    /\ qres' = [qres EXCEPT ![q] = [status |-> "counted",
                                    connected_clients |-> connection_count(registry)]]
    /\ cmlock' = [cmlock EXCEPT !.readers = @ \ {q}]
    /\ qpc' = [qpc EXCEPT ![q] = "status"]
    /\ UNCHANGED <<ledgerVars, orchVars, busVars, cur, hpc, ctask, etask, last_text,
                   registry, regLast, qreq, qat, poolVars>>

\* get_blockchain_status 233-243: the reply, with the count read before
StatusReturn(q) ==
    /\ qpc[q] = "status"
    /\ \E now \in Timestamps :
          Reply(q, [StatusReply(chain, registry, now)
                        EXCEPT !.body.connected_clients = qres[q].connected_clients])

\* get_blockchain_status 237-240: unwrap() panics and the unwinding drops the read guard
StatusPanics(q) ==
    /\ qpc[q] = "status"
    /\ Reply(q, [status |-> "panic"])

\* one status request, lock by lock
AnswerStatus(q) ==
    \/ RequestStatus(q)
    \/ AcquireRead(q)
    \/ StatusCountLock(q)
    \/ StatusCountRead(q)
    \/ StatusReturn(q)
    \/ StatusPanics(q)

\* one connection's registration and deregistration, lock by lock
EnrolLocked(s) ==
    \/ Accept(s)
    \/ HandshakeFails(s)
    \/ HandshakeDone(s)
    \/ AddConnectionLock(s)
    \/ AddConnectionInsert(s)
    \/ ClientEnds(s)
    \/ SelectReturns(s)
    \/ RemoveConnectionLock(s)
    \/ RemoveConnectionRemove(s)

\* main, status requests and one connection, each lock acquisition a step
SpecLocks ==
    Init /\ [][Orchestrator \/ QueueWrite \/ AnswerStatus(1) \/ EnrolLocked(1)]_vars

\* every task keeps being scheduled, and both RwLocks are fair: a task that waits for a
\* guard that becomes free again and again gets it
SpecLocksFair ==
    /\ SpecLocks
    /\ WF_vars(StepOutsideMining)
    /\ MiningFairness
    /\ SF_vars(AcquireRead(1))
    /\ SF_vars(StatusCountLock(1))
    /\ WF_vars(StatusCountRead(1))
    /\ WF_vars(StatusReturn(1) \/ StatusPanics(1))
    /\ SF_vars(AddConnectionLock(1))
    /\ WF_vars(AddConnectionInsert(1))
    /\ WF_vars(SelectReturns(1))
    /\ SF_vars(RemoveConnectionLock(1))
    /\ WF_vars(RemoveConnectionRemove(1))

\* the ThreadPool, its user and its workers
SpecPool == Init /\ [][ThreadPool]_vars

\* every worker thread and the thread inside drop() keep being scheduled
SpecPoolFair ==
    /\ SpecPool
    /\ \A w \in WorkerIds : WF_vars(Worker(w))
    /\ WF_vars(ThreadPoolDrop)

\* a connection whose event_task is not scheduled
Enrol(s) ==
    \/ Accept(s)
    \/ HandshakeFails(s)
    \/ Register(s)
    \/ ClientEnds(s)
    \/ Deregister(s)

Registration == \E s \in Sessions : Enrol(s)

\* main, one request at a time and the registration of one connection
SpecServe == Init /\ [][Orchestrator \/ QueueWrite \/ Answer(1) \/ Enrol(1)]_vars

(***************************************************************************)
(* The event bus and the streaming server under a publisher that is not    *)
(* bound to main's nine rounds: EventBus is Clone and broadcast is pub, so *)
(* any holder of a clone publishes as main does.                           *)
(***************************************************************************)
\* the k-th event of that publisher
BurstEvent(k) ==
    [type |-> "BlockchainUpdated", total_blocks |-> k, total_transactions |-> 0]

\* one step of a call of EventBus::broadcast by that publisher
BroadcastCall ==
    /\ broadcast(BurstEvent(Len(published) + 1))
    /\ UNCHANGED <<ledgerVars, opc, round, sender, new_block, iteration, txi, receivers,
                   rxNext, subAt, recvd, sessionVars, queryVars>>

\* the publisher sends while a Receiver is alive (a call that began is completed)
PublishBurst ==
    /\ Len(published) < MaxBurst
    /\ bcphase = "send" \/ receivers # {}
    /\ BroadcastCall

\* the publisher's first events, sent whether or not a Receiver is alive
PublishFew ==
    /\ Len(published) < MaxFanout
    /\ BroadcastCall

\* a burst and one connection
SpecBurst == Init /\ [][PublishBurst \/ Serve(1)]_vars

\* a few events and two connections
SpecFanout == Init /\ [][PublishFew \/ Serve(1) \/ Serve(2)]_vars

\* the same, where a handle_connection whose select! can complete is scheduled: it is a
\* spawned task that a finished JoinHandle wakes
SpecFanoutFair == SpecFanout /\ \A s \in Sessions : WF_vars(Deregister(s))

(***************************************************************************)
(* Properties.                                                             *)
(***************************************************************************)
\* a String that is 64 lowercase hex characters
IsSha256Hex(h) ==
    /\ Len(h) = 64
    /\ \A k \in 1..Len(h) : \E d \in 1..16 : HexChars[d] = h[k]

\* the first DIFFICULTY characters of h are '0'
HasZeroPrefix(h) ==
    /\ Len(h) >= DIFFICULTY
    /\ \A k \in 1..DIFFICULTY : h[k] = "0"

\* the blocks a finished request returned
RepliedBlocks(q) ==
    IF qres[q].status # "ok" THEN {}
    ELSE IF qreq[q].route = "block" THEN {qres[q].body}
    ELSE IF qreq[q].route = "blocks" THEN {qres[q].body[p] : p \in 1..Len(qres[q].body)}
    ELSE {}

\* C1: every block stored after the first has prev_hash equal to the hash of the block
\* stored immediately before it, after any number of rounds.
C1_LinkedToPrevious ==
    \A p \in 2..Len(chain) : chain[p].prev_hash = chain[p - 1].hash

\* C1 witness: two mined blocks are stored, the second linked to the (mined) first
C1_Witness ==
    /\ Len(chain) = 3
    /\ chain[2].hash # <<>>
    /\ chain[3].prev_hash = chain[2].hash

\* C2: every block add_new_block pushed has a hash whose first DIFFICULTY hex characters
\* are '0', in the ledger and in every reply of a query.
C2_PushedBlocksMeetDifficulty ==
    /\ \A p \in 2..Len(chain) : HasZeroPrefix(chain[p].hash)
    /\ \A q \in Queries : \A b \in RepliedBlocks(q) : b.index > 0 => HasZeroPrefix(b.hash)

\* C2 witness: a mined block is in the ledger and a query has returned it
C2_Witness ==
    /\ Len(chain) >= 2
    /\ \E q \in Queries : \E b \in RepliedBlocks(q) : b.index > 0 /\ b.nonce > 0

\* C3: for every mined block in the ledger, the hash recomputed from its stored index,
\* prev_hash, timestamp, transactions and nonce is its stored hash.
C3_StoredHashRecomputes ==
    \A p \in 2..Len(chain) : calculate_hash(chain[p]) = chain[p].hash

\* C3 witness: a stored block whose search missed at least once, linked to a mined block
C3_Witness ==
    /\ Len(chain) = 3
    /\ chain[3].nonce > 0
    /\ chain[3].prev_hash # <<>>

\* C4: the ledger is append-only: every step keeps the stored blocks as they are, in place,
\* and adds at most one; the step that pushes adds exactly one.
C4_AppendOnly ==
    [][/\ Len(chain') \in {Len(chain), Len(chain) + 1}
       /\ SubSeq(chain', 1, Len(chain)) = chain
       /\ (opc = "push" /\ opc' # "push") => Len(chain') = Len(chain) + 1]_vars

\* C4 witness: two blocks were appended after the genesis block
C4_Witness ==
    /\ Len(chain) = 3
    /\ opc = "updated"

\* C5: the ledger is never empty, it holds exactly the genesis block until the first push,
\* and its first block is always the genesis block: index 0, empty prev_hash, no
\* transactions.
C5_GenesisFirst ==
    /\ Len(chain) >= 1
    /\ chain[1].index = 0
    /\ chain[1].prev_hash = <<>>
    /\ chain[1].data = <<>>
    /\ published = <<>> => Len(chain) = 1

\* C5 witness: the genesis block is first after two blocks were appended
C5_Witness ==
    /\ Len(chain) = 3
    /\ chain[1].index = 0
    /\ chain[2].index > 0

\* C6 (as claimed): every hash stored in the ledger or returned by a query, the genesis
\* block's and the status's last_block_hash included, is 64 lowercase hex characters.
C6_EveryHashIsSha256Hex ==
    /\ \A p \in 1..Len(chain) : IsSha256Hex(chain[p].hash)
    /\ \A q \in Queries :
          (qreq[q].route = "status" /\ qres[q].status = "ok")
              => IsSha256Hex(qres[q].body.last_block_hash)

\* C7: get_block_by_index and get_block_transactions answer not-found exactly when the
\* index is at least the ledger length under the read guard, and a not-found answer
\* leaves the ledger, the event bus and the registry as they were.
C7_NotFoundExactlyOutOfRange ==
    [][\A q \in Queries :
          (qpc[q] = "read" /\ qpc'[q] = "idle" /\ qreq[q].route \in IndexedRoutes)
              => /\ (qres'[q].status = "not_found") <=> (qreq[q].index >= Len(chain))
                 /\ (qres'[q].status = "not_found")
                        => UNCHANGED <<chain, log, published, receivers, rxNext, registry>>
      ]_vars

\* C7 witness: a request for index 2 was answered not-found on a ledger of 2 blocks,
\* with a connection registered
C7_Witness ==
    \E q \in Queries :
        /\ qpc[q] = "idle"
        /\ qreq[q] = [route |-> "block", index |-> 2]
        /\ qres[q].status = "not_found"
        /\ Len(chain) = 2
        /\ registry # {}

\* C8 (as claimed): the block get_block_by_index returns for i has index field i.
C8_ReturnedBlockHasRequestedIndex ==
    \A q \in Queries :
        (qreq[q].route = "block" /\ qres[q].status = "ok")
            => qres[q].body.index = qreq[q].index

\* C9: a broadcast that finds no Receiver, at receiver_count() or only at send(), returns
\* in that step with nothing stored in the channel, and main is never kept waiting at a
\* broadcast.
C9_PublishWithoutSubscribers ==
    /\ [](opc \in {"tx", "mine_start", "mined", "updated"} => ENABLED Orchestrator)
    /\ [][(published' # published /\ receivers = {})
             => /\ log' = log
                /\ bcphase' = "check"
                /\ lastBroadcast' \in {"no_clients", "send_err"}
                /\ <<opc', txi'>> # <<opc, txi>>]_vars

\* C9 witness: the last Receiver was dropped between receiver_count() and send(), and the
\* call returned
C9_Witness ==
    /\ lastBroadcast = "send_err"
    /\ bcphase = "check"

\* C10: a Receiver whose backlog never exceeds the capacity has received, or still has
\* waiting in the channel, exactly the events published since it subscribed, each once,
\* in publish order.
C10_SubscriberReceivesAllInOrder ==
    \A s \in receivers :
        Len(log) - rxNext[s] <= Capacity
            => recvd[s] \o SubSeq(log, rxNext[s] + 1, Len(log))
                   = SubSeq(published, subAt[s] + 1, Len(published))

\* C10 witness: a Receiver has received all the six events of a round published after it
\* subscribed
C10_Witness ==
    \E s \in receivers :
        /\ Len(recvd[s]) >= 6
        /\ rxNext[s] = Len(log)
        /\ recvd[s] = SubSeq(published, subAt[s] + 1, Len(published))

\* C11: for every connection, whatever its backlog and also after its Receiver lagged, the
\* events recv() returned to it are a run of consecutive events of the publish sequence
\* that starts after its subscription: a subsequence in publish order, no position twice.
C11_DeliveredInPublishOrder ==
    \A s \in Sessions :
        /\ subAt[s] + Len(recvd[s]) <= Len(published)
        /\ recvd[s] = SubSeq(published, subAt[s] + 1, subAt[s] + Len(recvd[s]))

\* C11 witness: a slow connection received an event, then fell more than the channel
\* holds behind and missed the rest
C11_Witness ==
    \E s \in Sessions :
        /\ Len(recvd[s]) >= 1
        /\ etask[s] = "ended"
        /\ Len(log) - rxNext[s] > ChannelSlots

\* C12: a call of EventBus::broadcast is never kept waiting: its next step can be taken in
\* every state, whatever the unread backlog of a Receiver, and the step that sends returns.
C12_PublishNeverWaits ==
    /\ [](ENABLED BroadcastCall)
    /\ [][(bcphase = "send" /\ published' # published)
             => (bcphase' = "check" /\ lastBroadcast' \in {"sent", "send_err"})]_vars

\* C12 witness: an event was sent while a Receiver that reads nothing had more than
\* Capacity events unread
C12_Witness ==
    \E s \in receivers :
        /\ recvd[s] = <<>>
        /\ Len(log) - rxNext[s] > Capacity + 1
        /\ lastBroadcast = "sent"
        /\ bcphase = "check"

\* C13 (as claimed): a Receiver whose backlog exceeded what the channel holds keeps its
\* subscription and its event_task keeps running: no recv() ends the loop.
C13_LaggedSubscriberKeepsReceiving ==
    [][\A s \in Sessions :
          etask[s] = "recv" => (etask'[s] # "ended" /\ (s \in receivers => s \in receivers'))
      ]_vars

\* C14 (as claimed): an event is delivered only while it is among the last Capacity (100)
\* events of the channel, and a Receiver that fell behind loses only the events the
\* channel no longer holds: it stays subscribed for the retained ones.
C14_RetainsCapacityLosesOldest ==
    [][\A s \in Sessions :
          /\ recvd'[s] # recvd[s] => Len(log) - rxNext[s] <= Capacity
          /\ (s \in receivers /\ RecvLagged(s)) => s \in receivers'
      ]_vars

\* C15: every event recv() returned to a connection was published after its subscribe():
\* none of the events published before it, with or without a Receiver alive then, is
\* among them.
C15_OnlyEventsAfterSubscribe ==
    \A s \in Sessions :
        /\ \A i \in 1..Len(recvd[s]) :
              \E k \in (subAt[s] + 1)..Len(published) : published[k] = recvd[s][i]
        /\ \A k \in 1..subAt[s] :
              \A i \in 1..Len(recvd[s]) : recvd[s][i] # published[k]

\* C15 witness: a connection subscribed after an event was published with no Receiver
\* and after another one was sent to an earlier Receiver, and then received an event
C15_Witness ==
    \E s \in Sessions :
        /\ subAt[s] >= 2
        /\ Len(log) >= 2
        /\ Len(log) < Len(published)
        /\ rxNext[s] >= 2
        /\ Len(recvd[s]) >= 1

\* the tasks of a connection that are still running
RunningTasks(s) ==
    (IF ctask[s] = "running" THEN {"client_task"} ELSE {})
        \cup (IF etask[s] \in {"start", "recv", "send"} THEN {"event_task"} ELSE {})

\* C16 (as claimed): a connection that is no longer in the registry has no task running
\* and no Receiver alive.
C16_NoDutyOutlivesRegistration ==
    \A s \in Sessions :
        hpc[s] = "closed" => (RunningTasks(s) = {} /\ s \notin receivers)

\* C17: a registered connection one of whose tasks has ended, whichever and however, is
\* removed from the registry; a closed connection is never in the registry, which counts
\* exactly the connections between add_connection and remove_connection.
C17_DeregisteredWhenEitherEnds ==
    /\ \A s \in Sessions :
          (s \in registry /\ (ctask[s] = "ended" \/ etask[s] = "ended")) ~> (s \notin registry)
    /\ [](\A s \in Sessions : hpc[s] = "closed" => s \notin registry)
    /\ [](connection_count(registry) = Cardinality({s \in Sessions : hpc[s] = "select"}))

\* C17 witness: the event_task ended first, by a failed write, and the connection was
\* deregistered while its client_task was still reading and the other connection
\* stayed registered
C17_Witness ==
    \E s \in Sessions :
        /\ hpc[s] = "closed"
        /\ etask[s] = "ended"
        /\ Len(recvd[s]) >= 1
        /\ ctask[s] = "running"
        /\ s \notin registry
        /\ connection_count(registry) = 1

\* C18: a connection whose handshake failed is not registered, has no task and no
\* Receiver, and leaves the registry and the Receivers of the others as they were; the
\* accept loop still accepts every connection that has not arrived yet.
C18_FailedHandshakeAbortsOnlyItself ==
    /\ [](\A s \in Sessions :
            (hpc[s] = "closed" /\ ctask[s] = "none")
                => /\ s \notin registry
                   /\ s \notin receivers
                   /\ etask[s] = "none"
                   /\ \A t \in Sessions : hpc[t] = "idle" => ENABLED Accept(t))
    /\ [][\A s \in Sessions :
            (hpc[s] = "handshake" /\ hpc'[s] = "closed")
                => UNCHANGED <<registry, receivers, rxNext, log, ctask, etask>>]_vars

\* C18 witness: the first connection failed its handshake and a later one was accepted,
\* registered and subscribed
C18_Witness ==
    /\ hpc[1] = "closed"
    /\ ctask[1] = "none"
    /\ hpc[2] = "select"
    /\ 2 \in registry
    /\ 2 \in receivers

\* positions of the publish sequence
Published == 1..Len(published)
IsUpdate(p) == published[p].type = "BlockchainUpdated"
IsBlockEvent(p) ==
    published[p].type \in {"TransactionCreated", "BlockMiningStarted", "BlockMined"}

\* the number of BlockchainUpdated events published before position p
UpdatesBefore(p) == Cardinality({u \in 1..(p - 1) : IsUpdate(u)})

\* the number of published events that satisfy Test
CountEvents(Test(_)) == Cardinality({p \in Published : Test(published[p])})

\* C19: in the publish sequence the events of one block lie between the BlockchainUpdated
\* of the block before and its own: BlockMiningStarted before BlockMined, both and every
\* TransactionCreated of the block before its BlockchainUpdated, and no event of a later
\* block before it.
C19_EventOrderOfARound ==
    /\ \A p, q \in Published :
          (IsBlockEvent(p) /\ IsBlockEvent(q))
              => ((UpdatesBefore(p) = UpdatesBefore(q))
                      <=> (published[p].block_index = published[q].block_index))
    /\ \A m \in Published :
          published[m].type = "BlockMined"
              => \E t \in 1..(m - 1) :
                     /\ published[t].type = "BlockMiningStarted"
                     /\ published[t].block_index = published[m].block_index
    /\ \A u \in Published :
          IsUpdate(u)
              => /\ published[u].total_blocks = UpdatesBefore(u) + 2
                 /\ published[u].total_blocks <= Len(chain)
                 /\ \E m \in 1..(u - 1) :
                        /\ published[m].type = "BlockMined"
                        /\ UpdatesBefore(m) = UpdatesBefore(u)
                 /\ \A p \in 1..(u - 1) :
                        (IsBlockEvent(p) /\ UpdatesBefore(p) = UpdatesBefore(u))
                            => published[p].block_index
                                   = chain[published[u].total_blocks].index
                 /\ \A k \in 1..Len(chain[published[u].total_blocks].data) :
                        \E p \in 1..(u - 1) :
                            published[p]
                                = TransactionCreated(chain[published[u].total_blocks].data[k],
                                                     chain[published[u].total_blocks].index)

\* C19 witness: the events of two appended blocks were published
C19_Witness ==
    /\ Len(chain) = 3
    /\ Len(published) = 12
    /\ IsUpdate(12)

\* C20: no BlockMiningStarted, BlockMined or TransactionCreated is published twice, and
\* once the BlockchainUpdated of an appended block is out, exactly one BlockMiningStarted,
\* one BlockMined and one TransactionCreated per transaction of that block were
\* published, and one BlockchainUpdated per appended block; also for a block whose
\* search took more than PauseIterations turns.
C20_EachEventOnce ==
    /\ \A p, q \in Published :
          (p # q /\ published[p].type # "BlockchainUpdated") => published[p] # published[q]
    /\ \A p, q \in Published :
          (p # q /\ published[p].type = published[q].type
                 /\ published[p].type \in {"BlockMiningStarted", "BlockMined"})
              => published[p].block_index # published[q].block_index
    /\ LET updates == Cardinality({u \in Published : IsUpdate(u)})
       IN  /\ updates = IF opc = "updated" THEN Len(chain) - 2 ELSE Len(chain) - 1
           /\ \A b \in 2..(updates + 1) :
                 LET Started(e) == e.type = "BlockMiningStarted"
                                       /\ e.block_index = chain[b].index
                     Mined(e) == e.type = "BlockMined" /\ e.block_index = chain[b].index
                     Created(e) == e.type = "TransactionCreated"
                                       /\ e.block_index = chain[b].index
                 IN  /\ CountEvents(Started) = 1
                     /\ CountEvents(Mined) = 1
                     /\ CountEvents(Created) = Len(chain[b].data)
                     /\ \A k \in 1..Len(chain[b].data) :
                           \E p \in Published :
                               published[p]
                                   = TransactionCreated(chain[b].data[k], chain[b].index)

\* C20 witness: a block whose search took more than PauseIterations turns was appended
\* after the pause and its six events are out
C20_Witness ==
    /\ Len(chain) = 2
    /\ chain[2].nonce >= PauseIterations
    /\ opc = "unlock"
    /\ Len(published) = 6

\* the transactions of the first k blocks of the ledger, as (block, place) pairs
TransactionsUpTo(k) ==
    UNION {{<<b, n>> : n \in 1..Len(chain[b].data)} : b \in 1..k}

\* C21: the k-th BlockchainUpdated published carries total_blocks = k + 1, the ledger
\* length right after the k-th append, and total_transactions = the number of
\* transactions in those k + 1 blocks; so total_blocks grows by exactly 1 from one
\* BlockchainUpdated to the next.
C21_UpdateCarriesTotals ==
    /\ \A u \in Published :
          IsUpdate(u)
              => /\ published[u].total_blocks = UpdatesBefore(u) + 2
                 /\ published[u].total_blocks <= Len(chain)
                 /\ published[u].total_transactions
                        = Cardinality(TransactionsUpTo(published[u].total_blocks))
    /\ (opc = "unlock" /\ published # <<>>)
          => /\ IsUpdate(Len(published))
             /\ published[Len(published)].total_blocks = Len(chain)

\* C21 witness: the BlockchainUpdated of the second append is out: 3 blocks and
\* 6 transactions
C21_Witness ==
    /\ opc = "unlock"
    /\ Len(chain) = 3
    /\ published[Len(published)]
           = [type |-> "BlockchainUpdated", total_blocks |-> 3, total_transactions |-> 6]

\* where main is while it holds the write guard
WriteSection == {"link", "mine_start", "mine", "mined", "pause", "push", "updated", "unlock"}

\* C22: no request holds the read guard while main holds the write guard, main holds it
\* exactly from blockchain.write() to the end of add_new_block, and what a request
\* returns is the ledger as it was between two rounds: a prefix of the ledger whose
\* appended blocks are all mined and linked, never the candidate block.
C22_ReadersSeeLedgerBetweenRounds ==
    /\ [](~(wlock /\ readers # {}))
    /\ [](wlock <=> opc \in WriteSection)
    /\ [](\A q \in Queries :
            /\ \A b \in RepliedBlocks(q) :
                  /\ \E p \in 1..Len(chain) : chain[p] = b
                  /\ b.index > 0 => (HasZeroPrefix(b.hash) /\ calculate_hash(b) = b.hash)
            /\ (qreq[q].route = "blocks" /\ qres[q].status = "ok")
                  => /\ qres[q].body = SubSeq(chain, 1, qat[q])
                     /\ \A p \in 2..qat[q] :
                           qres[q].body[p].prev_hash = qres[q].body[p - 1].hash)
    /\ [][\A q \in Queries : qpc'[q] # qpc[q] => opc \notin WriteSection \/ qpc[q] = "idle"]_vars

\* C22 witness: a request waits for the read guard while main, holding the write guard,
\* is in the middle of the nonce search
C22_Witness ==
    \E q \in Queries :
        /\ qpc[q] = "wait"
        /\ wlock
        /\ opc = "mine"
        /\ new_block.nonce > 0

\* C23: the requests that hold the read guard are exactly those inside a handler; a step
\* of a request never changes the ledger or the write guard; and when a handler returns,
\* with a reply or with not-found, its read guard is released.
C23_QueriesOnlyRead ==
    /\ [](readers = {q \in Queries : qpc[q] = "read"})
    /\ [][\A q \in Queries :
            /\ qpc'[q] # qpc[q] => (chain' = chain /\ wlock' = wlock)
            /\ (qpc[q] = "read" /\ qpc'[q] = "idle")
                  => /\ q \notin readers'
                     /\ qres'[q].status \in {"ok", "not_found", "panic"}]_vars

\* C23 witness: after a not-found answer main took the write guard
C23_Witness ==
    \E q \in Queries :
        /\ qpc[q] = "idle"
        /\ qres[q].status = "not_found"
        /\ readers = {}
        /\ wlock

\* C24: two answers of get_all_transactions given on the same ledger (no append between
\* them) are identical: the same entries in the same order.
C24_ListTransactionsIdempotent ==
    \A q1, q2 \in Queries :
        (/\ qreq[q1].route = "transactions" /\ qres[q1].status = "ok"
         /\ qreq[q2].route = "transactions" /\ qres[q2].status = "ok"
         /\ qat[q1] = qat[q2])
            => qres[q1].body = qres[q2].body

\* C24 witness: two requests were answered on the same ledger of two blocks
C24_Witness ==
    \E q1, q2 \in Queries :
        /\ q1 # q2
        /\ qreq[q1].route = "transactions" /\ qres[q1].status = "ok"
        /\ qreq[q2].route = "transactions" /\ qres[q2].status = "ok"
        /\ qat[q1] = 2 /\ qat[q2] = 2
        /\ Len(qres[q1].body) = 3

\* C25 (as claimed): every entry get_all_transactions returns carries the index field and
\* the hash of the block that holds its transaction.
C25_EntriesCarryBlockIndexField ==
    \A q \in Queries :
        (qreq[q].route = "transactions" /\ qres[q].status = "ok")
            => \A i \in 1..Len(qres[q].body) :
                   \E p \in 1..Len(chain) :
                       /\ chain[p].index = qres[q].body[i].block_index
                       /\ chain[p].hash = qres[q].body[i].block_hash
                       /\ \E n \in 1..Len(chain[p].data) :
                              TransactionEntry(chain[p].data[n], chain[p].index, chain[p])
                                  = qres[q].body[i]

\* C26: get_blockchain_status returns the length and the last block's hash of the ledger
\* behind its read guard, and the number of connections registered when it answers.
C26_StatusOfOneSnapshot ==
    /\ [](\A q \in Queries :
            (qreq[q].route = "status" /\ qres[q].status = "ok")
                => /\ qres[q].body.total_blocks = qat[q]
                   /\ qat[q] \in 1..Len(chain)
                   /\ qres[q].body.last_block_hash = chain[qat[q]].hash)
    /\ [][\A q \in Queries :
            (qpc[q] = "read" /\ qpc'[q] = "idle" /\ qreq[q].route = "status"
                 /\ qres'[q].status = "ok")
                => /\ qres'[q].body.total_blocks = Len(chain)
                   /\ qres'[q].body.last_block_hash = chain[Len(chain)].hash
                   /\ qres'[q].body.connected_clients
                          = Cardinality({s \in Sessions : hpc[s] = "select"})]_vars

\* C26 witness: a status answered on a ledger of two blocks with one connection
\* registered, read after the ledger grew to three
C26_Witness ==
    \E q \in Queries :
        /\ qreq[q].route = "status"
        /\ qres[q].status = "ok"
        /\ qres[q].body.total_blocks = 2
        /\ qres[q].body.connected_clients = 1
        /\ qres[q].body.last_block_hash # <<>>
        /\ Len(chain) = 3

\* a step in which a per-connection or per-request path ends in an error: the handshake
\* fails, the client's stream ends or fails, event_task ends (failed write, or Lagged),
\* or a request is answered not-found
SessionErrorStep(s) ==
    \/ hpc[s] = "handshake" /\ hpc'[s] = "closed"
    \/ ctask[s] = "running" /\ ctask'[s] = "ended"
    \/ etask[s] \in {"recv", "send"} /\ etask'[s] = "ended"

QueryErrorStep(q) == qpc[q] = "read" /\ qres'[q].status = "not_found"

\* C27: an error on a connection's or a request's path leaves main's position, its round
\* and the ledger as they were and closes no other connection; main stops only after its
\* last round, and until then, outside the mining loop, it can always step or queue for
\* the write lock, or waits only for read guards whose handlers can return; a connection
\* not yet accepted can be accepted in every state.
C27_ErrorsStopNeitherMainNorAccept ==
    /\ [][(\E s \in Sessions : SessionErrorStep(s))
              => UNCHANGED <<orchVars, ledgerVars, published>>]_vars
    /\ [][\A s \in Sessions : SessionErrorStep(s)
              => \A t \in Sessions \ {s} : hpc'[t] = hpc[t]]_vars
    /\ [][(\E q \in Queries : QueryErrorStep(q))
              => UNCHANGED <<orchVars, chain, wlock, published, sessionVars>>]_vars
    /\ [](opc = "idle" => round = NumRounds)
    /\ [](opc \notin {"idle", "mine"}
            => \/ ENABLED StepOutsideMining
               \/ readers # {} /\ \A q \in readers : ENABLED Answer(q))
    /\ [](\A t \in Sessions : hpc[t] = "idle" => ENABLED Accept(t))

\* C27 witness: connection 1 was closed after a failed write while its client_task still
\* ran, a request was answered not-found, main has finished its last round with the
\* whole ledger, and connection 2 can be accepted
C27_Witness ==
    /\ hpc[1] = "closed" /\ etask[1] = "ended" /\ ctask[1] = "running"
    /\ Len(recvd[1]) >= 1
    /\ qres[1].status = "not_found"
    /\ opc = "idle" /\ round = NumRounds
    /\ Len(chain) = NumRounds + 1
    /\ hpc[2] = "idle" /\ ENABLED Accept(2)

\* the step of a round whose Block::new failed: main leaves the head of a round without
\* a candidate block
SkipStep == opc = "round" /\ round < NumRounds /\ opc' # "tx"

\* C28: the step that skips a round after a clock error leaves the ledger, the channel
\* and the published events as they were and moves main to the head of the next round;
\* nothing was published and no block stored for the skipped round, and nothing is later,
\* because every block event published carries the index of the round main is in and
\* rounds only go up; at the head of a round that is not past the last, the round's
\* block can be built.
C28_ClockErrorSkipsRound ==
    /\ [][SkipStep
            => /\ UNCHANGED <<chain, wlock, log, published, sender>>
               /\ round' = round + 1 /\ opc' = "round"
               /\ \A p \in Published :
                      IsBlockEvent(p) => published[p].block_index # round + 1
               /\ \A i \in 1..Len(chain) : chain[i].index # round + 1]_vars
    /\ [][published' # published
            => /\ Len(published') = Len(published) + 1
               /\ SubSeq(published', 1, Len(published)) = published
               /\ LET e == published'[Len(published')]
                  IN  e.type # "BlockchainUpdated" => e.block_index = round + 1]_vars
    /\ [][chain' # chain
            => /\ Len(chain') = Len(chain) + 1
               /\ chain'[Len(chain')].index = round + 1]_vars
    /\ [][round' >= round]_vars
    /\ [](opc = "round" /\ round < NumRounds => ENABLED BuildBlock)

\* C28 witness: round 1 was skipped and round 2 completed: the ledger holds the genesis
\* block and block 2, the six events published are those of block 2, and main is done
C28_Witness ==
    /\ opc = "idle" /\ round = NumRounds
    /\ Len(chain) = 2 /\ chain[2].index = 2
    /\ Len(published) = 6
    /\ \A p \in Published : IsBlockEvent(p) => published[p].block_index = 2
    /\ published[6] = BlockchainUpdated(chain)

\* C29: a step in which a text frame is read changes nothing but the record of the text
\* read: the ledger and its lock, main's position, the channel, the published events, the
\* subscriptions, the registry and the connection's tasks are as before, whatever the
\* text; and no step that is not the reading of a text frame changes that record, which
\* no other step reads.
C29_TextFramesChangeNothing ==
    /\ [][last_text' # last_text
            => UNCHANGED <<ledgerVars, orchVars, busVars, cur, hpc, ctask, etask, registry,
                           regLast, queryVars>>]_vars
    /\ [][\A s \in Sessions :
            last_text'[s] # last_text[s] => ctask[s] = "running" /\ last_text'[s] \in Texts]_vars
    /\ [](\A s \in Sessions : ctask[s] = "running" => ENABLED ClientText(s))

\* C29 witness: the connection's client sent "ping" and the connection is still
\* registered and has been sent events, while main has mined and published every round
C29_Witness ==
    /\ last_text[1] = "ping"
    /\ 1 \in registry /\ hpc[1] = "select" /\ ctask[1] = "running"
    /\ Len(recvd[1]) >= 1
    /\ opc = "idle"
    /\ Len(chain) = NumRounds + 1
    /\ Len(published) = 6 * NumRounds

\* the ids whose last call was add_connection
Attached == {id \in Sessions : regLast[id] = "add"}

\* C30: connection_count() is the number of ids whose last call was add_connection and the
\* registry holds exactly those ids; add_connection of an id that is present and
\* remove_connection of one that is absent leave the count as it was; and the count a
\* status reply carries is the count of the registry at the reply.
C30_CountIsAttachedNotDetached ==
    /\ [](connection_count(registry) = Cardinality(Attached))
    /\ [](registry = Attached)
    /\ [][\A id \in Sessions :
            \/ regLast'[id] = "add" /\ id \in registry
            \/ regLast'[id] = "remove" /\ regLast[id] # "remove" /\ id \notin registry
            => connection_count(registry') = connection_count(registry)
                   \/ \E other \in Sessions \ {id} : regLast'[other] # regLast[other]]_vars
    /\ [][\A q \in Queries :
            (qpc[q] = "read" /\ qreq[q].route = "status" /\ qres'[q].status = "ok")
                => qres'[q].body.connected_clients = Cardinality(Attached)]_vars

\* C30 witness: id 1 was attached and then detached, id 2 has been attached, so the count
\* is 1, and a status reply given when both were attached reads 2
C30_Witness ==
    /\ regLast[1] = "remove" /\ regLast[2] = "add"
    /\ registry = {2}
    /\ connection_count(registry) = 1
    /\ qreq[1].route = "status" /\ qres[1].status = "ok"
    /\ qres[1].body.connected_clients = 2

\* block b with nonce n, hashed
HashAtNonce(b, n) == calculate_hash([b EXCEPT !.nonce = n])

\* n is the smallest nonce from 0 at which block b meets the difficulty
SmallestNonce(b, n) ==
    /\ MeetsDifficulty(HashAtNonce(b, n))
    /\ \A m \in 0..(n - 1) : ~MeetsDifficulty(HashAtNonce(b, m))

\* main's positions between the success of the search and the push of the block
AfterSuccess == {"mined", "pause", "push"}

\* C31: the search starts at nonce 0 and a turn that misses adds exactly 1 to the nonce;
\* the turn that succeeds leaves the nonce and stores its hash; the block then has the
\* smallest nonce that meets the difficulty; from the success to the push, with or
\* without the pause, nonce and hash stay as they are, and so they are in the ledger.
C31_SearchFindsSmallestNonceOnce ==
    /\ [](opc = "mine_start" => new_block.nonce = 0)
    /\ [](opc = "mine" => new_block.nonce = iteration)
    /\ [][(opc = "mine" /\ opc' = "mine")
            => /\ ~MeetsDifficulty(HashAtNonce(new_block, new_block.nonce))
               /\ new_block'.nonce = new_block.nonce + 1]_vars
    /\ [][(opc = "mine" /\ opc' # "mine")
            => /\ opc' = "mined"
               /\ new_block'.nonce = new_block.nonce
               /\ new_block'.hash = HashAtNonce(new_block, new_block.nonce)]_vars
    /\ [](opc \in AfterSuccess
            => /\ SmallestNonce(new_block, new_block.nonce)
               /\ new_block.hash = HashAtNonce(new_block, new_block.nonce)
               /\ iteration = new_block.nonce + 1)
    /\ [][(opc \in AfterSuccess /\ opc' \in AfterSuccess) => new_block' = new_block]_vars
    /\ [][(opc = "push" /\ opc' # "push") => chain' = Append(chain, new_block)]_vars
    /\ [](\A i \in 2..Len(chain) : SmallestNonce(chain[i], chain[i].nonce))

\* C31 witness: a search that succeeded after more than 100 turns, none of them at nonce
\* 0, is in its pause with the nonce and hash of the success, the smallest that meets the
\* difficulty
C31_Witness ==
    /\ opc = "pause"
    /\ new_block.nonce >= PauseIterations
    /\ iteration = new_block.nonce + 1
    /\ SmallestNonce(new_block, new_block.nonce)
    /\ new_block.hash = HashAtNonce(new_block, new_block.nonce)
    /\ MeetsDifficulty(new_block.hash)

\* main's positions inside mine_block_with_visual_hash: the nonce search and its pause
Mining == {"mine_start", "mine", "mined", "pause"}

\* C32: while main is in the nonce search or its pause the write lock is not held, and
\* a request waiting for its read guard can take it.
C32_MiningOutsideWriteLock ==
    opc \in Mining
        => /\ ~wlock
           /\ \A q \in Queries : qpc[q] = "wait" => ENABLED AcquireRead(q)

\* C33: a request that waits for its read guard can take it unless main holds the write
\* guard or is queued for it, whichever other requests hold read guards; taking a read
\* guard leaves the guards of the other requests in place.
C33_ReadersShareTheLock ==
    /\ [](\A q \in Queries :
            qpc[q] = "wait" => \/ ENABLED AcquireRead(q)
                               \/ wlock
                               \/ opc = "write_wait")
    /\ [][\A q \in Queries :
            (qpc[q] = "wait" /\ qpc'[q] = "read")
                => /\ readers' = readers \cup {q}
                   /\ ~wlock /\ ~wlock']_vars

\* C33 witness: every request holds a read guard at once, the second taken while the
\* first was held, and main is at blockchain.write() and not yet queued
C33_Witness ==
    /\ readers = Queries
    /\ Cardinality(readers) = MaxQueries
    /\ \A q \in Queries : qpc[q] = "read"
    /\ ~wlock
    /\ opc = "write"

\* event e is the BlockMined of block b
MinedDescribes(e, b) ==
    /\ e.type = "BlockMined"
    /\ e.block_index = b.index
    /\ e.hash = b.hash
    /\ e.transactions_count = Len(b.data)

\* event e is the TransactionCreated of a transaction of block b
CreatedDescribes(e, b) ==
    /\ e.type = "TransactionCreated"
    /\ e.block_index = b.index
    /\ \E k \in 1..Len(b.data) : e = TransactionCreated(b.data[k], b.index)

\* C34: every BlockMined published carries the index field, the stored hash and the
\* number of transactions of exactly one block of the ledger, or of the candidate that
\* main is about to push; every TransactionCreated carries the index field of a block of
\* the ledger, or of the candidate, that holds its transaction; and between rounds and
\* at the end no event is left that describes a block not in the ledger.
C34_EventsDescribeTheAppendedBlock ==
    /\ \A p \in Published :
          published[p].type = "BlockMined"
              => \/ Cardinality({i \in 2..Len(chain) :
                                    MinedDescribes(published[p], chain[i])}) = 1
                 \/ opc \in AfterSuccess /\ MinedDescribes(published[p], new_block)
    /\ \A p \in Published :
          published[p].type = "TransactionCreated"
              => \/ \E i \in 2..Len(chain) : CreatedDescribes(published[p], chain[i])
                 \/ new_block # NoBlock /\ CreatedDescribes(published[p], new_block)
    /\ opc \in {"round", "idle"}
          => \A p \in Published :
                 IsBlockEvent(p)
                     => \E i \in 2..Len(chain) :
                            chain[i].index = published[p].block_index

\* C34 witness: after a skipped round the block at position 1 has index field 2, and the
\* BlockMined and TransactionCreated events published for it carry 2, its stored hash and
\* its three transactions
C34_Witness ==
    /\ Len(chain) = 2 /\ chain[2].index = 2
    /\ opc = "round"
    /\ \E p \in Published :
          /\ published[p].type = "BlockMined"
          /\ published[p] = BlockMined(chain[2])
          /\ published[p].block_index = 2
          /\ published[p].transactions_count = 3
    /\ Cardinality({p \in Published : CreatedDescribes(published[p], chain[2])}) = 3

\* ledger c holds the block of every BlockMined published and has at least the length
\* every BlockchainUpdated published carries
ShowsAllPublished(c) ==
    /\ \A p \in Published :
          published[p].type = "BlockMined"
              => \E i \in 2..Len(c) : MinedDescribes(published[p], c[i])
    /\ \A p \in Published : IsUpdate(p) => published[p].total_blocks <= Len(c)

\* C35: whenever the write guard is not held, so whenever a request can hold or take a
\* read guard, the ledger holds the block of every BlockMined published so far and is
\* at least as long as every BlockchainUpdated published so far says; and the reply
\* of get_all_blocks holds those blocks and the reply of get_blockchain_status counts
\* them. A request made after an event was published reads in such a state.
C35_QueriesSeePublishedBlocks ==
    /\ [](~wlock => ShowsAllPublished(chain))
    /\ [](readers # {} => ~wlock)
    /\ [][\A q \in Queries :
            (qpc[q] = "read" /\ qpc'[q] = "idle" /\ qres'[q].status = "ok")
                => /\ qreq[q].route = "blocks" => ShowsAllPublished(qres'[q].body)
                   /\ qreq[q].route = "status"
                          => \A p \in Published :
                                 IsUpdate(p) => published[p].total_blocks
                                                    <= qres'[q].body.total_blocks]_vars

\* C35 witness: with the BlockMined and the BlockchainUpdated of the first round out, a
\* request was answered with both blocks, and main is publishing the transactions of
\* the second round
C35_Witness ==
    /\ qreq[1].route = "blocks" /\ qres[1].status = "ok"
    /\ Len(qres[1].body) = 2
    /\ \E p \in Published : MinedDescribes(published[p], qres[1].body[2])
    /\ \E p \in Published : IsUpdate(p) /\ published[p].total_blocks = 2
    /\ opc = "tx" /\ round = 1
    /\ Len(chain) = 2

\* a TransactionCreated of round r has been published
CreatedPublished(r) ==
    \E p \in Published :
        published[p].type = "TransactionCreated" /\ published[p].block_index = r

\* the ledger holds a block with index r that holds the transaction of every
\* TransactionCreated of round r published
CreatedStored(r) ==
    \E i \in 2..Len(chain) :
        /\ chain[i].index = r
        /\ \A p \in Published :
              (published[p].type = "TransactionCreated" /\ published[p].block_index = r)
                  => CreatedDescribes(published[p], chain[i])

\* C36: a TransactionCreated is published while main does not hold the write guard and
\* the ledger has no block of its index; and, main and the handlers being scheduled and
\* the search terminating, once a TransactionCreated of a round is out the ledger comes
\* to hold a block of that index with the transaction, and holds it from then on.
C36_CreatedIsEventuallyStored ==
    /\ [][\A r \in 1..NumRounds :
            (CreatedPublished(r)' /\ Len(published') > Len(published)
                 /\ published'[Len(published')].type = "TransactionCreated")
                => /\ ~wlock
                   /\ published'[Len(published')].block_index = round + 1
                   /\ \A i \in 1..Len(chain) : chain[i].index # round + 1]_vars
    /\ \A r \in 1..NumRounds : CreatedPublished(r) ~> CreatedStored(r)
    /\ \A r \in 1..NumRounds : [](CreatedStored(r) => [](CreatedStored(r)))

\* C36 witness: the three TransactionCreated of round 2 are out, main waits queued for
\* the write guard behind a request that reads, and the ledger has no block 2 yet
C36_Witness ==
    /\ round = 1
    /\ opc = "write_wait"
    /\ readers = {1}
    /\ Cardinality({p \in Published : published[p].type = "TransactionCreated"
                                          /\ published[p].block_index = 2}) = 3
    /\ ~CreatedStored(2)
    /\ ~wlock

\* C37 (as claimed): a connection in the registry has its Receiver, and an event
\* published while a connection is in the registry with both its tasks running is
\* published to a channel on which that connection has a Receiver.
C37_RegisteredIsSubscribed ==
    /\ [](\A s \in Sessions :
            (s \in registry /\ ctask[s] = "running" /\ etask[s] # "ended")
                => s \in receivers)
    /\ [][\A s \in Sessions :
            (s \in registry /\ ctask[s] = "running" /\ etask[s] # "ended"
                 /\ Len(published') > Len(published))
                => s \in receivers]_vars

\* C38: the registry's write guard is exclusive and is never held by a task that waits
\* for the ledger; and, every task being scheduled, both locks fair and every search
\* terminating: a status request that has arrived is answered, an add_connection and a
\* remove_connection that were called complete, and main, once at blockchain.write(),
\* gets the write guard and, once it holds it, releases it.
C38_NoDeadlockBetweenLocks ==
    /\ [](cmlock.writer # 0 => cmlock.readers = {})
    /\ [](cmlock.readers \subseteq readers)
    /\ \A q \in Queries : (qpc[q] # "idle") ~> (qpc[q] = "idle")
    /\ \A s \in Sessions : (hpc[s] = "add") ~> (hpc[s] = "select" /\ s \in registry)
    /\ \A s \in Sessions : (hpc[s] = "remove") ~> (hpc[s] = "closed" /\ s \notin registry)
    /\ (opc \in {"write", "write_wait"}) ~> wlock
    /\ wlock ~> ~wlock

\* C38 witness: a status handler holds the ledger's read guard and waits for the
\* registry's read guard, which connection 1 holds for its add_connection, while main
\* is queued for the ledger's write guard
C38_Witness ==
    /\ qpc[1] = "read" /\ qreq[1].route = "status" /\ readers = {1}
    /\ cmlock.writer = 1 /\ hpc[1] = "adding"
    /\ ~ENABLED StatusCountLock(1)
    /\ opc = "write_wait"

\* C39 (as claimed): once drop() has been entered the channel has no Sender; drop()
\* returns; and when it has returned every worker's loop has ended and every job given
\* to execute() before has run.
C39_DropShutsDownAndReturns ==
    /\ [](dpc # "alive" => ~sender_open)
    /\ (dpc = "join") ~> (dpc = "done")
    /\ [](dpc = "done"
            => /\ \A w \in WorkerIds : workers[w].pc = "exited"
               /\ executed = 1..submitted)

=============================================================================
